---- MODULE Spec2Model ----
(***************************************************************************)
(* Model of the real-time anomaly detector                                 *)
(* src/detector/realtime_general_mongo.py: the polling loop monitor() and  *)
(* the three detectors check_cusum, check_invariants and check_drift.      *)
(*                                                                         *)
(* Numbers.  The program computes with IEEE doubles.  The model uses       *)
(* fixed-point integers: a level, a residual, C_plus, C_minus, h_t and k_a *)
(* are integers in units of 1e-4 (so 5.0 is 50000 and DEAD_BAND = 0.10 is  *)
(* 1000); the dispersion (rolling_mad / std) is carried in units of 1e-8   *)
(* so that the factor 1.4826 and the floor 1e-6 are exact.  A product with *)
(* a decimal factor is rounded down to the unit.                           *)
(*                                                                         *)
(* Optional values (Python None) are sequences: <<>> is None and <<v>> is  *)
(* the value v.                                                            *)
(***************************************************************************)
EXTENDS Integers, Sequences, FiniteSets, TLC

(* ----------------------------- bounds --------------------------------- *)
\* Window size of the CUSUM and drift buffers (144 in the program, line 21).
W == 2
\* Largest value the store's iteration counter takes.
MaxIter == 4
\* Largest number of loop passes that read a snapshot.
MaxPasses == 6

(* ------------------------ program constants --------------------------- *)
DECAY == 99
PERSISTENCE_THRESHOLD == 2
k_a_max == 3000
MIN_H == 8000
MAX_H == 100000
INV_PERSIST == 2
DEAD_BAND == 1000
DRIFT_THRESHOLD == 6000
K_ATTACK_SEED == 135
MAD_FACTOR == 14826
DISPERSION_FLOOR == 100
H_FACTOR == 3
FINE == 100 * 100
residual_mode == "median"
threshold_mode == "mad"

\* Levels the external writer puts into the plant table of the loop's store.
Levels == {0, 50000}
PumpValues == {0, 1}
\* Names of the rows of the plant table.
StoreNames == {"T1", "T2", "PU1", "Reservoir"}

None == <<>>
Some(v) == <<v>>

(* ------------------------- numeric helpers ---------------------------- *)
Abs(x) == IF x < 0 THEN -x ELSE x
Max(a, b) == IF a >= b THEN a ELSE b
Min(a, b) == IF a <= b THEN a ELSE b

RECURSIVE SeqSum(_)
SeqSum(s) == IF s = <<>> THEN 0 ELSE Head(s) + SeqSum(Tail(s))

\* np.median: the middle of the sorted values, the mean of the two middle ones
\* when their number is even.
Median(buf) ==
    LET s == SortSeq(buf, LAMBDA a, b: a < b)
        n == Len(s)
    IN  IF n % 2 = 1 THEN s[(n + 1) \div 2]
        ELSE (s[n \div 2] + s[n \div 2 + 1]) \div 2

\* np.mean
Mean(buf) == SeqSum(buf) \div Len(buf)

\* np.mean(np.abs(np.array(buf) - np.median(buf)))
MeanAbsDev(buf) ==
    LET m == Median(buf)
    IN  SeqSum([i \in 1..Len(buf) |-> Abs(buf[i] - m)]) \div Len(buf)

\* np.std: the square root (rounded down) of the population variance.
Std(buf) ==
    LET m == Mean(buf)
        v == SeqSum([i \in 1..Len(buf) |-> (buf[i] - m) * (buf[i] - m)]) \div Len(buf)
    IN  CHOOSE r \in 0..46340 : r * r <= v /\ (r + 1) * (r + 1) > v

\* Mutant of Get: a missing key reads as 1, whatever the default.
Get_MissingIsOne(d, key, default) == IF key \in DOMAIN d THEN d[key] ELSE 1

\* dict.get(key, default)
Get(d, key, default) == IF key \in DOMAIN d THEN d[key] ELSE default

\* Mutant of DequeAppend: a deque without maxlen.
DequeAppend_Unbounded(buf, x) == Append(buf, x)

\* deque(maxlen=W).append
DequeAppend(buf, x) ==
    IF Len(buf) < W THEN Append(buf, x) ELSE Append(Tail(buf), x)

(* ------------------- compute_threshold_and_residual ------------------- *)
\* Returns residual, h_t and k_a (units of 1e-4) from the window as it is
\* before the new sample x_t is appended.
\* Mutant of ClampH: the upper limit MAX_H is lost.
ClampH_NoUpper(x) == Max(x, MIN_H * FINE)

\* lines 77, 81: min(max(3.0 * dispersion, MIN_H), MAX_H), in units of 1e-8
ClampH(x) == Min(Max(x, MIN_H * FINE), MAX_H * FINE)

\* The body (lines 71-83) under a given setting of threshold_mode; it has no
\* raise statement.
ThresholdAndResidual(mode, buffer, x_t, tank, k_att) ==
    LET estimate == IF residual_mode = "median" THEN Median(buffer) ELSE Mean(buffer)
        residual == x_t - estimate
        \* dispersion in units of 1e-8, floored at 1e-6
        disp == IF mode = "mad"
                THEN Max(MAD_FACTOR * MeanAbsDev(buffer), DISPERSION_FLOOR)
                ELSE Max(FINE * Std(buffer), DISPERSION_FLOOR)
        h_t == ClampH(H_FACTOR * disp) \div FINE
        gain == Get(k_att, tank, (k_a_max * 100) \div FINE)
        k_a == Max(k_a_max, (gain * (disp \div FINE)) \div 100)
    IN  [residual |-> residual, h_t |-> h_t, k_a |-> k_a]

compute_threshold_and_residual(buffer, x_t, tank, k_att) ==
    ThresholdAndResidual(threshold_mode, buffer, x_t, tank, k_att)

(* ------------------------------ state --------------------------------- *)
VARIABLES
    store_time,         \* the master_time row of the store: None or Some(iteration)
    store_plant,        \* the plant table: name -> value
    pc,                 \* position of monitor()
    tanks, pumps,       \* discovered entity lists (sorted)
    k_attack,           \* tank -> sensitivity gain (hundredths)
    cusum_state,        \* tank -> record buffer, C_plus, C_minus (, h_t, persist)
    inv_prev,           \* attributes prev_<tank> of check_invariants
    inv_badcnt,         \* attributes badcnt_<tank> of check_invariants
    long_term_buffers,  \* tank -> drift buffer
    last_block_mean,    \* tank -> None or Some(mean of the previous block)
    last_time,          \* id of the last iteration whose pass completed
    current_time,       \* local of the pass: None or Some(id)
    state,              \* local of the pass: the snapshot name -> value
    alerts,             \* alerts returned by the latest detector call
    forwarded,          \* alerts handed to write_alert in the current pass
    passes,             \* number of passes that read a snapshot
    alerts_of,          \* the detector that returned `alerts`
    idle,               \* the latest poll found no new iteration
    fed_seq,            \* the iteration ids fed to the detectors, one per pass
    cusum_calls,        \* number of calls of check_cusum
    pass_cusum_calls,   \* number of calls of check_cusum in the current pass
    above_log,          \* tank -> `above` of its latest PERSISTENCE_THRESHOLD + 1 detection steps
    start_persist,      \* tank -> persistence counter at the start of the current pass
    inv_calls,          \* number of calls of check_invariants
    viol_run,           \* tank -> length of the current run of violating calls
    inv_before,         \* prev_<tank> and badcnt_<tank> as they were before the latest call
    names,              \* the rows of SELECT DISTINCT name, in the order the store returns them
    unit_calls,         \* number of direct calls of check_drift or write_alert
    conn_opened,        \* sqlite3.connect has returned the connection
    conn_closes,        \* number of calls of conn.close()
    ended,              \* None while monitor() runs, then Some([by, at]): how and where it ended
    mongo_docs,         \* the documents inserted into the alerts collection
    json_log,           \* the pieces appended to the JSON alert file
    first_alert_flag,   \* the flag write_alert returns to its caller
    sink_last,          \* what the latest call of write_alert met and did
    store_stage,        \* the store: "no_file", "no_table" or "ready" (the plant table exists)
    printed,            \* the messages monitor() printed at lines 239-241
    q_log,              \* the store's answers to the attempts of one safe_db_query call
    q_result,           \* None while the call runs, then Some of what it returned or raised
    dbm_connection,     \* DatabaseManager.connection: None or Some(number of the connection)
    dbm_conns,          \* per connection opened by DatabaseManager: times it was closed
    dbm_log,            \* the calls made on the DatabaseManager, with their outcome
    store_hist,         \* the plant table as it was at each value of the store's counter
    th_input,           \* None, or Some of the arguments of the one call under test
    th_result           \* None before the call, then Some of its outcome

vars == <<store_time, store_plant, pc, tanks, pumps, k_attack, cusum_state,
          inv_prev, inv_badcnt, long_term_buffers, last_block_mean, last_time,
          current_time, state, alerts, alerts_of, idle, forwarded, passes, fed_seq,
          cusum_calls, pass_cusum_calls, above_log, start_persist, inv_calls,
          viol_run, inv_before, names, unit_calls, conn_opened, conn_closes, ended,
          mongo_docs, json_log, first_alert_flag, sink_last, store_stage, printed,
          q_log, q_result, dbm_connection, dbm_conns, dbm_log, store_hist, th_input,
          th_result>>

storeVars == <<store_time, store_plant>>
topoVars == <<tanks, pumps, k_attack>>
cusumVars == <<cusum_state, cusum_calls, pass_cusum_calls, above_log, start_persist>>
invVars == <<inv_prev, inv_badcnt, inv_calls, viol_run, inv_before>>
driftVars == <<long_term_buffers, last_block_mean>>
harnessVars == <<names, unit_calls>>
lifeVars == <<conn_opened, conn_closes, ended>>
sinkVars == <<mongo_docs, json_log, first_alert_flag, sink_last>>
startVars == <<store_stage, printed>>
unitVars ==
    <<q_log, q_result, dbm_connection, dbm_conns, dbm_log, store_hist, th_input, th_result>>
detectorVars == <<cusum_state, inv_prev, inv_badcnt, long_term_buffers, last_block_mean>>

Range(s) == {s[i] : i \in 1..Len(s)}

\* The number of passes that fed iteration id to the detectors.
FedCount(seq, id) == Cardinality({k \in 1..Len(seq) : seq[k] = id})

RECURSIVE ConcatAlerts(_, _)
ConcatAlerts(tks, res) ==
    IF tks = <<>> THEN <<>>
    ELSE res[Head(tks)].alerts \o ConcatAlerts(Tail(tks), res)

(* ----------------------------- check_cusum ---------------------------- *)
\* Mutant of WarmingUp: detection starts one sample early.
WarmingUp_OneShort(st) == Len(st.buffer) < W - 1

\* line 93: the window is still being collected
WarmingUp(st) == Len(st.buffer) < W

\* Mutant of CusumUpdate: the clamp max(0.0, ...) is lost.
CusumUpdate_NoClamp(c, drift) == (DECAY * c) \div 100 + drift

\* lines 104-105: decayed one-sided sum, clamped at 0
CusumUpdate(c, drift) == Max(0, (DECAY * c) \div 100 + drift)

\* lines 109-110
PersistUpdate(st, above) ==
    LET persist == Get(st, "persist", 0)
    IN  IF above THEN Min(persist + 1, PERSISTENCE_THRESHOLD) ELSE 0

\* Mutant of CusumFires: the alarm fires on the first step above the threshold.
CusumFires_First(persist) == persist >= 1

\* line 112
CusumFires(persist) == persist >= PERSISTENCE_THRESHOLD

\* The body of the loop of check_cusum for one tank (lines 89-121) under a
\* given setting of threshold_mode.
CusumTankIn(mode, st, x_t, tank, now, k_att) ==
    IF WarmingUp(st)
    THEN [st |-> [st EXCEPT !.buffer = DequeAppend(@, x_t)],
          alerts |-> <<>>, detected |-> FALSE, above |-> FALSE]
    ELSE LET r == ThresholdAndResidual(mode, st.buffer, x_t, tank, k_att)
             cp == CusumUpdate(st.C_plus, r.residual - r.k_a)
             cm == CusumUpdate(st.C_minus, (0 - r.residual) - r.k_a)
             above == cp > r.h_t \/ cm > r.h_t
             persist == PersistUpdate(st, above)
         IN  [st |-> [buffer |-> DequeAppend(st.buffer, x_t), C_plus |-> cp,
                      C_minus |-> cm, h_t |-> r.h_t, persist |-> persist],
              alerts |-> IF CusumFires(persist)
                         THEN << [types |-> "CUSUM_ALARM", iteration |-> now,
                                  tank |-> tank, C_plus |-> cp, C_minus |-> cm,
                                  persist |-> persist] >>
                         ELSE <<>>,
              detected |-> TRUE, above |-> above]

CusumTank(st, x_t, tank, now, k_att) ==
    CusumTankIn(threshold_mode, st, x_t, tank, now, k_att)

\* check_cusum(state, current_time): every tank in the order of `tanks`.
check_cusum(cs, snapshot, now, tks, k_att) ==
    LET res == [t \in Range(tks) |-> CusumTank(cs[t], Get(snapshot, t, 0), t, now, k_att)]
    IN  [cusum_state |-> [t \in DOMAIN cs |-> IF t \in Range(tks) THEN res[t].st ELSE cs[t]],
         alerts |-> ConcatAlerts(tks, res),
         res |-> res]

\* The window of the latest `above` values of a tank's detection steps.
LogAbove(log, r) ==
    IF ~r.detected THEN log
    ELSE IF Len(log) < PERSISTENCE_THRESHOLD + 1 THEN Append(log, r.above)
    ELSE Append(Tail(log), r.above)

(* --------------------------- check_invariants ------------------------- *)
\* Mutant of PumpOn: the row PU1 counts even when PU1 was not discovered.
PumpOn_UndiscoveredToo(snapshot, pps) ==
    (\E p \in Range(pps) : Get(snapshot, p, 0) # 0) \/ Get(snapshot, "PU1", 0) # 0

\* line 129
PumpOn(snapshot, pps) == \E p \in Range(pps) : Get(snapshot, p, 0) # 0

\* Mutant of Violated: the dead band is not strict.
Violated_NotStrict(pump_on, delta) ==
    (pump_on /\ delta <= 0 - DEAD_BAND) \/ (~pump_on /\ delta >= DEAD_BAND)

\* line 147
Violated(pump_on, delta) ==
    (pump_on /\ delta < 0 - DEAD_BAND) \/ (~pump_on /\ delta > DEAD_BAND)

\* Mutant of InvFires: the alert needs one more violation.
InvFires_Late(badcnt) == badcnt >= INV_PERSIST + 1

\* line 154
InvFires(badcnt) == badcnt >= INV_PERSIST

\* Mutant of BadcntAfterAlert: the counter is not reset by the alert.
BadcntAfterAlert_Kept(badcnt) == badcnt

\* line 164: the counter stored after an alert
BadcntAfterAlert(badcnt) == 0

\* Mutant of TankEmpty: a level close to 0.0 counts as empty.
TankEmpty_NearZero(level) == level <= DEAD_BAND

\* line 167
TankEmpty(level) == level = 0

\* Mutant of PrevAfter: the level of the first sample stays the stored level.
PrevAfter_KeepFirst(prev, level) == IF prev = None THEN level ELSE prev[1]

\* line 139: the level stored as prev_<tank>, before the first-sample test;
\* prev is None or Some of the level stored before.
PrevAfter(prev, level) == level

\* The body of the loop of check_invariants for one tank (lines 132-173).
\* setbad says whether badcnt_<tank> is assigned.
InvTank(prevs, bads, level, pump_on, tank, now) ==
    IF tank \notin DOMAIN prevs
    THEN [prev |-> PrevAfter(None, level), setbad |-> FALSE, badcnt |-> 0, alerts |-> <<>>,
          violated |-> FALSE]
    ELSE LET prev == prevs[tank]
             delta == level - prev
             violated == Violated(pump_on, delta)
             badcnt == IF violated THEN Get(bads, tank, 0) + 1 ELSE 0
         IN  [prev |-> PrevAfter(Some(prev), level), setbad |-> TRUE,
              badcnt |-> IF InvFires(badcnt) THEN BadcntAfterAlert(badcnt) ELSE badcnt,
              alerts |->
                (IF InvFires(badcnt)
                 THEN << [types |-> "INVARIANT_VIOLATION", iteration |-> now,
                          tank |-> tank, level |-> level, prev |-> prev,
                          persist |-> badcnt] >>
                 ELSE <<>>)
                \o
                (IF TankEmpty(level)
                 THEN << [types |-> "TANK_EMPTY", iteration |-> now, tank |-> tank] >>
                 ELSE <<>>),
              violated |-> violated]

check_invariants(prevs, bads, snapshot, now, tks, pps) ==
    LET pump_on == PumpOn(snapshot, pps)
        res == [t \in Range(tks) |-> InvTank(prevs, bads, Get(snapshot, t, 0), pump_on, t, now)]
        setb == {t \in Range(tks) : res[t].setbad}
    IN  [inv_prev |-> [t \in DOMAIN prevs \cup Range(tks) |->
                          IF t \in Range(tks) THEN res[t].prev ELSE prevs[t]],
         inv_badcnt |-> [t \in DOMAIN bads \cup setb |->
                          IF t \in setb THEN res[t].badcnt ELSE bads[t]],
         alerts |-> ConcatAlerts(tks, res),
         res |-> res]

(* ------------------------------ check_drift --------------------------- *)
\* Mutant of BlockComplete: a block ends one sample early.
BlockComplete_Early(bufs, tks) == \A t \in Range(tks) : Len(bufs[t]) >= W - 1

\* line 182
BlockComplete(bufs, tks) == \A t \in Range(tks) : Len(bufs[t]) >= W

\* Mutant of DriftFires: a difference of exactly DRIFT_THRESHOLD alerts.
DriftFires_NotStrict(prev_mean, cur_mean) ==
    prev_mean # None /\ Abs(cur_mean - prev_mean[1]) >= DRIFT_THRESHOLD

\* line 186
DriftFires(prev_mean, cur_mean) ==
    prev_mean # None /\ Abs(cur_mean - prev_mean[1]) > DRIFT_THRESHOLD

\* Mutant of ClearedBuffer: the block stays in the buffer after its evaluation.
ClearedBuffer_Kept(buf) == buf

\* lines 195-196: long_term_buffers[t].clear()
ClearedBuffer(buf) == <<>>

check_drift(bufs, means, snapshot, now, tks) ==
    LET filled == [t \in DOMAIN bufs |->
                     IF t \in Range(tks) THEN DequeAppend(bufs[t], Get(snapshot, t, 0))
                     ELSE bufs[t]]
    IN  IF BlockComplete(filled, tks)
        THEN LET res == [t \in Range(tks) |->
                           LET cur_mean == Mean(filled[t])
                           IN  [cur |-> cur_mean,
                                alerts |-> IF DriftFires(means[t], cur_mean)
                                           THEN << [types |-> "MEAN_DRIFT", iteration |-> now,
                                                    tank |-> t, baseline |-> means[t][1],
                                                    current |-> cur_mean] >>
                                           ELSE <<>>]]
             IN  [long_term_buffers |-> [t \in DOMAIN bufs |->
                                           IF t \in Range(tks) THEN ClearedBuffer(filled[t])
                                           ELSE filled[t]],
                  last_block_mean |-> [t \in DOMAIN means |->
                                           IF t \in Range(tks) THEN Some(res[t].cur) ELSE means[t]],
                  alerts |-> ConcatAlerts(tks, res),
                  evaluated |-> TRUE]
        ELSE [long_term_buffers |-> filled, last_block_mean |-> means,
              alerts |-> <<>>, evaluated |-> FALSE]

(* -------------------------- topology discovery ------------------------ *)
\* The characters of a row name.
NameChars(n) ==
    CASE n = "T1" -> <<"T", "1">>
      [] n = "T2" -> <<"T", "2">>
      [] n = "PU1" -> <<"P", "U", "1">>
      [] n = "Reservoir" -> <<"R", "e", "s", "e", "r", "v", "o", "i", "r">>
      [] n = "T10" -> <<"T", "1", "0">>
      [] n = "t3" -> <<"t", "3">>
      [] n = "p2" -> <<"p", "2">>

Digits == {"0", "1", "2", "3", "4", "5", "6", "7", "8", "9"}

\* The characters of the names in code point order.
Alphabet == <<"0", "1", "2", "3", "4", "5", "6", "7", "8", "9", "P", "R", "T", "U",
              "e", "i", "o", "p", "r", "s", "t", "u", "v">>
CodePoint(c) == CHOOSE i \in 1..Len(Alphabet) : Alphabet[i] = c

\* Mutant of MatchTank: the pattern is case-sensitive.
MatchTank_UpperOnly(n) ==
    LET c == NameChars(n)
    IN  Len(c) >= 2 /\ c[1] = "T" /\ c[2] \in Digits

\* re.match(r'^[Tt]\d+', n)
MatchTank(n) ==
    LET c == NameChars(n)
    IN  Len(c) >= 2 /\ c[1] \in {"T", "t"} /\ c[2] \in Digits

\* re.match(r'^[Pp][Uu]?\d+', n)
MatchPump(n) ==
    LET c == NameChars(n)
    IN  /\ Len(c) >= 2
        /\ c[1] \in {"P", "p"}
        /\ \/ c[2] \in Digits
           \/ Len(c) >= 3 /\ c[2] \in {"U", "u"} /\ c[3] \in Digits

\* Python's order of str: by code point, a proper prefix first.
RECURSIVE CharsLess(_, _)
CharsLess(a, b) ==
    IF a = <<>> THEN b # <<>>
    ELSE IF b = <<>> THEN FALSE
    ELSE IF Head(a) # Head(b) THEN CodePoint(Head(a)) < CodePoint(Head(b))
    ELSE CharsLess(Tail(a), Tail(b))

\* sorted(...)
RECURSIVE Sorted(_)
Sorted(S) ==
    IF S = {} THEN <<>>
    ELSE LET m == CHOOSE x \in S :
                    \A y \in S \ {x} : CharsLess(NameChars(x), NameChars(y))
         IN  <<m>> \o Sorted(S \ {m})

\* list.insert at the place sorted() gives x in the sorted list s (after the
\* elements that are not greater).
InsertSorted(s, x) ==
    LET i == Cardinality({k \in 1..Len(s) : ~CharsLess(NameChars(x), NameChars(s[k]))})
    IN  SubSeq(s, 1, i) \o <<x>> \o SubSeq(s, i + 1, Len(s))

\* sorted(...) of a list of names
RECURSIVE sorted(_)
sorted(seq) ==
    IF seq = <<>> THEN <<>>
    ELSE InsertSorted(sorted(SubSeq(seq, 1, Len(seq) - 1)), seq[Len(seq)])

\* lines 229-231: the two lists from the names in the order of the rows
discover(rows) ==
    [tanks |-> sorted(SelectSeq(rows, MatchTank)),
     pumps |-> sorted(SelectSeq(rows, MatchPump))]

\* The orders in which a query can return the elements of S.
RECURSIVE Orderings(_)
Orderings(S) ==
    IF S = {} THEN {<<>>}
    ELSE UNION {{<<x>> \o o : o \in Orderings(S \ {x})} : x \in S}

(* ------------------------------ the store ----------------------------- *)
RowValues(n) ==
    IF MatchTank(n) THEN Levels ELSE IF MatchPump(n) THEN PumpValues ELSE {0}

\* The contents the external writer can give the plant table.
Snapshots ==
    {f \in [StoreNames -> Levels \cup PumpValues \cup {0}] :
        \A n \in StoreNames : f[n] \in RowValues(n)}

\* Mutant of get_master_time: reads one iteration ahead of the row.
get_master_time_ahead(rows) == IF rows = <<>> THEN None ELSE Some(rows[1] + 1)

\* get_master_time: None without a row, the integer of the row otherwise.
get_master_time(rows) == IF rows = <<>> THEN None ELSE Some(rows[1])

\* get_current_state: the rows as a mapping.
get_current_state(plant) == plant

\* The external writer creates the master_time row.
StoreInit ==
    /\ store_time = None
    /\ store_time' = Some(0)
    /\ UNCHANGED <<unitVars, startVars, harnessVars, lifeVars, sinkVars,
                   store_plant, pc, topoVars, cusumVars, invVars, driftVars, last_time,
                   current_time, state, alerts, alerts_of, idle, forwarded, passes, fed_seq>>

\* The external writer completes a simulation iteration.
StoreAdvance ==
    /\ store_time # None
    /\ store_time[1] < MaxIter
    /\ store_time' = Some(store_time[1] + 1)
    /\ store_plant' \in Snapshots
    /\ UNCHANGED <<unitVars, startVars, harnessVars, lifeVars, sinkVars,
                   pc, topoVars, cusumVars, invVars, driftVars, last_time,
                   current_time, state, alerts, alerts_of, idle, forwarded, passes, fed_seq>>

(* ------------------------------ monitor() ----------------------------- *)
\* lines 239-241: what monitor() prints after discovery, whatever it found
StartupMessages ==
    <<"Discovered tanks:", "Discovered pumps:", "Initializing initial buffer of W">>

\* lines 229-243 for the rows in the order the store returned them
DiscoverWith(rows) ==
    /\ tanks' = discover(rows).tanks
    /\ pumps' = discover(rows).pumps
    /\ k_attack' = [t \in Range(tanks') |-> K_ATTACK_SEED]
    /\ cusum_state' = [t \in Range(tanks') |-> [buffer |-> <<>>, C_plus |-> 0, C_minus |-> 0]]
    /\ long_term_buffers' = [t \in Range(tanks') |-> <<>>]
    /\ last_block_mean' = [t \in Range(tanks') |-> None]
    /\ above_log' = [t \in Range(tanks') |-> <<>>]
    /\ start_persist' = [t \in Range(tanks') |-> 0]
    /\ last_time' = 0 - 1
    /\ printed' = printed \o StartupMessages
    /\ UNCHANGED <<unitVars, store_stage, harnessVars, lifeVars, sinkVars,
                   storeVars, invVars, current_time, state, alerts, alerts_of, idle,
                   forwarded, passes, fed_seq, cusum_calls, pass_cusum_calls>>

\* lines 227-243
Discover ==
    /\ pc = "discover"
    /\ \E rows \in Orderings(DOMAIN store_plant) : DiscoverWith(rows)
    /\ pc' = "poll"

\* Mutant of NoNewIteration: the comparison with last_time is lost.
NoNewIteration_NoneOnly(t, last) == t = None

\* line 248
NoNewIteration(t, last) == t = None \/ t = Some(last)

\* lines 247-250
Poll ==
    /\ pc = "poll"
    /\ LET t == get_master_time(store_time)
       IN  /\ current_time' = t
           /\ idle' = NoNewIteration(t, last_time)
           /\ IF NoNewIteration(t, last_time)
              THEN pc' = "sleep"
              ELSE passes < MaxPasses /\ pc' = "read"
    /\ UNCHANGED <<unitVars, startVars, harnessVars, lifeVars, sinkVars,
                   storeVars, topoVars, cusumVars, invVars, driftVars, last_time,
                   state, alerts, alerts_of, forwarded, passes, fed_seq>>

\* line 251
GetCurrentState ==
    /\ pc = "read"
    /\ state' = get_current_state(store_plant)
    /\ passes' = passes + 1
    /\ forwarded' = <<>>
    /\ alerts' = <<>>
    /\ alerts_of' = "none"
    /\ idle' = FALSE
    /\ pass_cusum_calls' = 0
    /\ pc' = "warmup"
    /\ UNCHANGED <<unitVars, startVars, harnessVars, lifeVars, sinkVars,
                   storeVars, topoVars, cusum_state, cusum_calls, above_log,
                   start_persist, invVars, driftVars, last_time, current_time, fed_seq>>

\* A call of check_cusum on the pass's snapshot.
CallCusum(r) ==
    /\ cusum_state' = r.cusum_state
    /\ alerts' = r.alerts
    /\ alerts_of' = "cusum"
    /\ cusum_calls' = cusum_calls + 1
    /\ pass_cusum_calls' = pass_cusum_calls + 1
    /\ above_log' = [t \in DOMAIN above_log |-> LogAbove(above_log[t], r.res[t])]

\* Mutant of StillWarming: the pass goes on although a window is not full.
StillWarming_Never(cs, tks) == FALSE

\* line 255
StillWarming(cs, tks) == \E t \in Range(tks) : Len(cs[t].buffer) < W

\* lines 254-260: the call that fills the windows; its alerts are dropped.
WarmupCusum ==
    /\ pc = "warmup"
    /\ LET id == current_time[1]
           r == check_cusum(cusum_state, state, id, tanks, k_attack)
       IN  /\ CallCusum(r)
           /\ fed_seq' = Append(fed_seq, id)
           /\ start_persist' =
                [t \in DOMAIN start_persist |-> Get(cusum_state[t], "persist", 0)]
           /\ IF StillWarming(r.cusum_state, tanks)
              THEN last_time' = id /\ pc' = "sleep"
              ELSE pc' = "cusum" /\ UNCHANGED last_time
    /\ UNCHANGED <<unitVars, startVars, harnessVars, lifeVars, sinkVars,
                   storeVars, topoVars, invVars, driftVars, current_time, state,
                   idle, forwarded, passes>>

\* write_alert is not defined in the module (no def, no import: lines 1-14), so
\* the call of lines 264, 267, 270 raises NameError.
write_alert_raises == TRUE

\* for alert in ...: write_alert(alert); print(...)
RECURSIVE ForwardAlerts(_)
ForwardAlerts(as) ==
    IF as = <<>> THEN [sent |-> <<>>, raised |-> FALSE]
    ELSE IF write_alert_raises THEN [sent |-> <<Head(as)>>, raised |-> TRUE]
    ELSE LET rest == ForwardAlerts(Tail(as))
         IN  [sent |-> <<Head(as)>> \o rest.sent, raised |-> rest.raised]

\* lines 263-265; an exception ends the pass at line 280 without recording it.
DetectCusum ==
    /\ pc = "cusum"
    /\ LET r == check_cusum(cusum_state, state, current_time[1], tanks, k_attack)
           f == ForwardAlerts(r.alerts)
       IN  /\ CallCusum(r)
           /\ forwarded' = forwarded \o f.sent
           /\ pc' = IF f.raised THEN "sleep" ELSE "inv"
    /\ UNCHANGED <<unitVars, startVars, harnessVars, lifeVars, sinkVars,
                   storeVars, topoVars, start_persist, invVars, driftVars, last_time,
                   current_time, state, idle, passes, fed_seq>>

\* A call of check_invariants.
CallInvariants(r) ==
    /\ inv_prev' = r.inv_prev
    /\ inv_badcnt' = r.inv_badcnt
    /\ alerts' = r.alerts
    /\ alerts_of' = "inv"
    /\ inv_calls' = inv_calls + 1
    /\ viol_run' = [t \in DOMAIN r.res |->
                      IF r.res[t].violated THEN Get(viol_run, t, 0) + 1 ELSE 0]
    /\ inv_before' = [prev |-> inv_prev, badcnt |-> inv_badcnt]

\* lines 266-268
DetectInvariants ==
    /\ pc = "inv"
    /\ LET r == check_invariants(inv_prev, inv_badcnt, state, current_time[1], tanks, pumps)
           f == ForwardAlerts(r.alerts)
       IN  /\ CallInvariants(r)
           /\ forwarded' = forwarded \o f.sent
           /\ pc' = IF f.raised THEN "sleep" ELSE "drift"
    /\ UNCHANGED <<unitVars, startVars, harnessVars, lifeVars, sinkVars,
                   storeVars, topoVars, cusumVars, driftVars, last_time,
                   current_time, state, idle, passes, fed_seq>>

\* lines 269-271
DetectDrift ==
    /\ pc = "drift"
    /\ LET r == check_drift(long_term_buffers, last_block_mean, state, current_time[1], tanks)
           f == ForwardAlerts(r.alerts)
       IN  /\ long_term_buffers' = r.long_term_buffers
           /\ last_block_mean' = r.last_block_mean
           /\ alerts' = r.alerts
           /\ alerts_of' = "drift"
           /\ forwarded' = forwarded \o f.sent
           /\ pc' = IF f.raised THEN "sleep" ELSE "summary"
    /\ UNCHANGED <<unitVars, startVars, harnessVars, lifeVars, sinkVars,
                   storeVars, topoVars, cusumVars, invVars, last_time,
                   current_time, state, idle, passes, fed_seq>>

\* Mutant of Summary: the summary fails on an empty list of tanks.
Summary_EmptyFails ==
    /\ pc = "summary"
    /\ last_time' = IF tanks # <<>> /\ \A t \in Range(tanks) : "h_t" \in DOMAIN cusum_state[t]
                    THEN current_time[1] ELSE last_time
    /\ pc' = "sleep"
    /\ UNCHANGED <<unitVars, startVars, harnessVars, lifeVars, sinkVars,
                   storeVars, topoVars, cusumVars, invVars, driftVars,
                   current_time, state, alerts, alerts_of, idle, forwarded, passes, fed_seq>>

\* lines 274-279: the summary reads h_t of every tank (KeyError when absent),
\* then the iteration is recorded.
Summary ==
    /\ pc = "summary"
    /\ last_time' = IF \A t \in Range(tanks) : "h_t" \in DOMAIN cusum_state[t]
                    THEN current_time[1] ELSE last_time
    /\ pc' = "sleep"
    /\ UNCHANGED <<unitVars, startVars, harnessVars, lifeVars, sinkVars,
                   storeVars, topoVars, cusumVars, invVars, driftVars,
                   current_time, state, alerts, alerts_of, idle, forwarded, passes, fed_seq>>

\* time.sleep(POLL_INTERVAL), lines 249, 259, 282
Sleep ==
    /\ pc = "sleep"
    /\ pc' = "poll"
    /\ UNCHANGED <<unitVars, startVars, harnessVars, lifeVars, sinkVars,
                   storeVars, topoVars, cusumVars, invVars, driftVars, last_time,
                   current_time, state, alerts, alerts_of, idle, forwarded, passes, fed_seq>>

Init ==
    /\ store_time = None
    /\ store_plant \in Snapshots
    /\ pc = "discover"
    /\ tanks = <<>>
    /\ pumps = <<>>
    /\ k_attack = <<>>
    /\ cusum_state = <<>>
    /\ inv_prev = <<>>
    /\ inv_badcnt = <<>>
    /\ long_term_buffers = <<>>
    /\ last_block_mean = <<>>
    /\ last_time = 0 - 1
    /\ current_time = None
    /\ state = <<>>
    /\ alerts = <<>>
    /\ forwarded = <<>>
    /\ passes = 0
    /\ fed_seq = <<>>
    /\ alerts_of = "none"
    /\ idle = FALSE
    /\ cusum_calls = 0
    /\ pass_cusum_calls = 0
    /\ above_log = <<>>
    /\ start_persist = <<>>
    /\ inv_calls = 0
    /\ viol_run = <<>>
    /\ inv_before = [prev |-> <<>>, badcnt |-> <<>>]
    /\ names = <<>>
    /\ unit_calls = 0
    /\ conn_opened = TRUE
    /\ conn_closes = 0
    /\ ended = None
    /\ mongo_docs = <<>>
    /\ json_log = <<>>
    /\ first_alert_flag = TRUE
    /\ sink_last = None
    /\ store_stage = "ready"
    /\ printed = <<>>
    /\ q_log = <<>>
    /\ q_result = None
    /\ dbm_connection = None
    /\ dbm_conns = <<>>
    /\ dbm_log = <<>>
    /\ store_hist = <<>>
    /\ th_input = None
    /\ th_result = None

Next ==
    \/ StoreInit
    \/ StoreAdvance
    \/ Discover
    \/ Poll
    \/ GetCurrentState
    \/ WarmupCusum
    \/ DetectCusum
    \/ DetectInvariants
    \/ DetectDrift
    \/ Summary
    \/ Sleep

Spec == Init /\ [][Next]_vars

(* --------- monitor() with a record of what the store has held ---------- *)
\* The contents the recorded writer gives the plant table: the level of T1
\* varies.
RaceSnapshots == {f \in Snapshots : f["T2"] = 50000 /\ f["PU1"] = 0}

\* StoreInit, recording the table under the counter's first value.
StoreInitLogged ==
    /\ store_time = None
    /\ store_time' = Some(0)
    /\ store_hist' = <<store_plant>>
    /\ UNCHANGED <<q_log, q_result, dbm_connection, dbm_conns, dbm_log, th_input,
                   th_result, startVars, harnessVars, lifeVars, sinkVars,
                   store_plant, pc, topoVars, cusumVars, invVars, driftVars, last_time,
                   current_time, state, alerts, alerts_of, idle, forwarded, passes, fed_seq>>

\* StoreAdvance, recording the table under the counter's new value.
StoreAdvanceLogged ==
    /\ store_time # None
    /\ store_time[1] < MaxIter
    /\ store_time' = Some(store_time[1] + 1)
    /\ store_plant' \in RaceSnapshots
    /\ store_hist' = Append(store_hist, store_plant')
    /\ UNCHANGED <<q_log, q_result, dbm_connection, dbm_conns, dbm_log, th_input,
                   th_result, startVars, harnessVars, lifeVars, sinkVars,
                   pc, topoVars, cusumVars, invVars, driftVars, last_time,
                   current_time, state, alerts, alerts_of, idle, forwarded, passes, fed_seq>>

InitRace == Init /\ store_plant \in RaceSnapshots

NextRace ==
    \/ StoreInitLogged
    \/ StoreAdvanceLogged
    \/ Discover
    \/ Poll
    \/ GetCurrentState
    \/ WarmupCusum
    \/ DetectCusum
    \/ DetectInvariants
    \/ DetectDrift
    \/ Summary
    \/ Sleep

SpecRace == InitRace /\ [][NextRace]_vars

(* ------------- monitor() on a store whose counter restarts ------------- *)
\* After the last iteration of a simulation run the copy of the store is
\* replaced by the copy of a new run: its counter starts again at 0.
StoreRestart ==
    /\ store_time = Some(MaxIter)
    /\ store_time' = Some(0)
    /\ UNCHANGED <<unitVars, startVars, harnessVars, lifeVars, sinkVars,
                   store_plant, pc, topoVars, cusumVars, invVars, driftVars, last_time,
                   current_time, state, alerts, alerts_of, idle, forwarded, passes, fed_seq>>

\* The external writer completes an iteration that leaves the plant as it was.
StoreAdvanceSame ==
    /\ store_time # None
    /\ store_time[1] < MaxIter
    /\ store_time' = Some(store_time[1] + 1)
    /\ UNCHANGED <<unitVars, startVars, harnessVars, lifeVars, sinkVars,
                   store_plant, pc, topoVars, cusumVars, invVars, driftVars, last_time,
                   current_time, state, alerts, alerts_of, idle, forwarded, passes, fed_seq>>

NextRestart ==
    \/ StoreInit
    \/ StoreAdvanceSame
    \/ StoreRestart
    \/ Discover
    \/ Poll
    \/ GetCurrentState
    \/ WarmupCusum
    \/ DetectCusum
    \/ DetectInvariants
    \/ DetectDrift
    \/ Summary
    \/ Sleep

\* The plant table does not change in these runs: both tanks at 5.0, pump off.
InitRestart == Init /\ store_plant = [n \in StoreNames |-> IF MatchTank(n) THEN 50000 ELSE 0]

SpecRestart == InitRestart /\ [][NextRestart]_vars

(* --------------- monitor() from connect to its last line -------------- *)
\* Positions inside the try block of lines 244-290.
LoopPcs == {"poll", "read", "warmup", "cusum", "inv", "drift", "summary", "sleep"}

\* Positions of a pass after its first call of check_cusum.
MidPassPcs == {"cusum", "inv", "drift", "summary"}

\* The external writer completes an iteration that leaves the plant as it was.
StoreAdvanceSteady ==
    /\ store_time # None
    /\ store_time[1] < MaxIter
    /\ store_time' = Some(store_time[1] + 1)
    /\ UNCHANGED <<unitVars, startVars,
                   harnessVars, lifeVars, sinkVars, store_plant, pc, topoVars, cusumVars,
                   invVars, driftVars, last_time, current_time, state, alerts, alerts_of,
                   idle, forwarded, passes, fed_seq>>

\* lines 213-217
Connect ==
    /\ pc = "connect"
    /\ conn_opened' = TRUE
    /\ pc' = "schema"
    /\ UNCHANGED <<unitVars, startVars,
                   harnessVars, sinkVars, conn_closes, ended, storeVars, topoVars,
                   cusumVars, invVars, driftVars, last_time, current_time, state, alerts,
                   alerts_of, idle, forwarded, passes, fed_seq>>

\* lines 219-225: SELECT 1 FROM plant LIMIT 1 succeeds when the table exists,
\* with or without rows (while the table is missing, the loop sleeps and asks
\* again, which changes nothing)
SchemaWait ==
    /\ pc = "schema"
    /\ store_stage = "ready"
    /\ pc' = "discover"
    /\ UNCHANGED <<unitVars, startVars,
                   harnessVars, lifeVars, sinkVars, storeVars, topoVars, cusumVars,
                   invVars, driftVars, last_time, current_time, state, alerts, alerts_of,
                   idle, forwarded, passes, fed_seq>>

\* An exception leaves monitor() from position `at`: inside the try block of
\* line 244 the finally clause closes the connection (lines 287-290), before
\* it nothing does.
EndMonitor(by, at) ==
    /\ ended' = Some([by |-> by, at |-> at])
    /\ conn_closes' = IF at \in LoopPcs THEN conn_closes + 1 ELSE conn_closes
    /\ pc' = "done"
    /\ UNCHANGED <<unitVars, startVars,
                   harnessVars, sinkVars, conn_opened, storeVars, topoVars, cusumVars,
                   invVars, driftVars, last_time, current_time, state, alerts, alerts_of,
                   idle, forwarded, passes, fed_seq>>

\* line 221: conn.execute raises an error that is not sqlite3.OperationalError
SchemaFails == pc = "schema" /\ EndMonitor("error", pc)

\* line 228: safe_db_query re-raises an error that is not a lock (line 57)
DiscoverFails == pc = "discover" /\ EndMonitor("error", pc)

\* KeyboardInterrupt, raised wherever monitor() is executing; `except
\* Exception` (line 280) does not handle it, line 283 does
Interrupt == pc # "done" /\ EndMonitor("interrupt", pc)

\* An exception of a pass reaches the handler of line 280: it is printed and
\* the loop goes on to line 282.
PassRaises ==
    /\ pc' = "sleep"
    /\ UNCHANGED <<unitVars, startVars,
                   harnessVars, lifeVars, sinkVars, storeVars, topoVars, cusumVars,
                   invVars, driftVars, last_time, current_time, state, alerts, alerts_of,
                   idle, forwarded, passes, fed_seq>>

\* Mutant of ReadFails: the store error ends monitor().
ReadFails_Fatal == pc = "read" /\ EndMonitor("error", pc)

\* line 251: get_current_state raises a store error that is not a lock
ReadFails == pc = "read" /\ PassRaises

\* line 247: get_master_time raises a store error that is not a lock
PollFails == pc = "poll" /\ PassRaises

\* Before sqlite3.connect.
InitLife ==
    /\ store_time = None
    /\ store_plant \in Snapshots
    /\ pc = "connect"
    /\ tanks = <<>>
    /\ pumps = <<>>
    /\ k_attack = <<>>
    /\ cusum_state = <<>>
    /\ inv_prev = <<>>
    /\ inv_badcnt = <<>>
    /\ long_term_buffers = <<>>
    /\ last_block_mean = <<>>
    /\ last_time = 0 - 1
    /\ current_time = None
    /\ state = <<>>
    /\ alerts = <<>>
    /\ alerts_of = "none"
    /\ idle = FALSE
    /\ forwarded = <<>>
    /\ passes = 0
    /\ fed_seq = <<>>
    /\ cusum_calls = 0
    /\ pass_cusum_calls = 0
    /\ above_log = <<>>
    /\ start_persist = <<>>
    /\ inv_calls = 0
    /\ viol_run = <<>>
    /\ inv_before = [prev |-> <<>>, badcnt |-> <<>>]
    /\ names = <<>>
    /\ unit_calls = 0
    /\ conn_opened = FALSE
    /\ conn_closes = 0
    /\ ended = None
    /\ mongo_docs = <<>>
    /\ json_log = <<>>
    /\ first_alert_flag = TRUE
    /\ sink_last = None
    /\ store_stage = "ready"
    /\ printed = <<>>
    /\ q_log = <<>>
    /\ q_result = None
    /\ dbm_connection = None
    /\ dbm_conns = <<>>
    /\ dbm_log = <<>>
    /\ store_hist = <<>>
    /\ th_input = None
    /\ th_result = None

NextLife ==
    \/ StoreInit
    \/ StoreAdvanceSteady
    \/ Connect
    \/ SchemaWait
    \/ SchemaFails
    \/ Discover
    \/ DiscoverFails
    \/ Poll
    \/ PollFails
    \/ GetCurrentState
    \/ ReadFails
    \/ WarmupCusum
    \/ DetectCusum
    \/ DetectInvariants
    \/ DetectDrift
    \/ Summary
    \/ Sleep
    \/ Interrupt

SpecLife == InitLife /\ [][NextLife]_vars

(* ------------------ monitor() from a store that is not there ---------- *)
\* Plant tables without any tank.
NoTankTables ==
    {[n \in {"PU1", "Reservoir"} |-> IF n = "PU1" THEN v ELSE 0] : v \in PumpValues}

\* The rows the external writer first puts into the plant table.
StartTables == Snapshots \cup NoTankTables

\* The copy of the store file appears.
CreateFile ==
    /\ store_stage = "no_file"
    /\ store_stage' = "no_table"
    /\ UNCHANGED <<unitVars, printed, harnessVars, lifeVars, sinkVars, storeVars, pc,
                   topoVars, cusumVars, invVars, driftVars, last_time, current_time, state,
                   alerts, alerts_of, idle, forwarded, passes, fed_seq>>

\* The plant table is created, without rows.
CreateTable ==
    /\ store_stage = "no_table"
    /\ store_stage' = "ready"
    /\ UNCHANGED <<unitVars, printed, harnessVars, lifeVars, sinkVars, storeVars, pc,
                   topoVars, cusumVars, invVars, driftVars, last_time, current_time, state,
                   alerts, alerts_of, idle, forwarded, passes, fed_seq>>

\* The external writer fills the empty plant table.
InsertRows ==
    /\ store_stage = "ready"
    /\ store_plant = <<>>
    /\ store_plant' \in StartTables
    /\ UNCHANGED <<unitVars, startVars, harnessVars, lifeVars, sinkVars, store_time, pc,
                   topoVars, cusumVars, invVars, driftVars, last_time, current_time, state,
                   alerts, alerts_of, idle, forwarded, passes, fed_seq>>

\* lines 209-211: the file exists (while it does not, the loop sleeps and
\* looks again, which changes nothing)
WaitForCopy ==
    /\ pc = "wait_file"
    /\ store_stage # "no_file"
    /\ pc' = "connect"
    /\ UNCHANGED <<unitVars, startVars, harnessVars, lifeVars, sinkVars, storeVars,
                   topoVars, cusumVars, invVars, driftVars, last_time, current_time, state,
                   alerts, alerts_of, idle, forwarded, passes, fed_seq>>

\* The first line of monitor(), before the store file exists.
InitStart ==
    /\ store_stage = "no_file"
    /\ store_time = None
    /\ store_plant = <<>>
    /\ pc = "wait_file"
    /\ tanks = <<>>
    /\ pumps = <<>>
    /\ k_attack = <<>>
    /\ cusum_state = <<>>
    /\ inv_prev = <<>>
    /\ inv_badcnt = <<>>
    /\ long_term_buffers = <<>>
    /\ last_block_mean = <<>>
    /\ last_time = 0 - 1
    /\ current_time = None
    /\ state = <<>>
    /\ alerts = <<>>
    /\ alerts_of = "none"
    /\ idle = FALSE
    /\ forwarded = <<>>
    /\ passes = 0
    /\ fed_seq = <<>>
    /\ cusum_calls = 0
    /\ pass_cusum_calls = 0
    /\ above_log = <<>>
    /\ start_persist = <<>>
    /\ inv_calls = 0
    /\ viol_run = <<>>
    /\ inv_before = [prev |-> <<>>, badcnt |-> <<>>]
    /\ names = <<>>
    /\ unit_calls = 0
    /\ conn_opened = FALSE
    /\ conn_closes = 0
    /\ ended = None
    /\ mongo_docs = <<>>
    /\ json_log = <<>>
    /\ first_alert_flag = TRUE
    /\ sink_last = None
    /\ printed = <<>>
    /\ q_log = <<>>
    /\ q_result = None
    /\ dbm_connection = None
    /\ dbm_conns = <<>>
    /\ dbm_log = <<>>
    /\ store_hist = <<>>
    /\ th_input = None
    /\ th_result = None

NextStart ==
    \/ CreateFile
    \/ CreateTable
    \/ InsertRows
    \/ StoreInit
    \/ StoreAdvanceSteady
    \/ WaitForCopy
    \/ Connect
    \/ SchemaWait
    \/ Discover
    \/ Poll
    \/ GetCurrentState
    \/ WarmupCusum
    \/ DetectCusum
    \/ DetectInvariants
    \/ DetectDrift
    \/ Summary
    \/ Sleep

SpecStart == InitStart /\ [][NextStart]_vars

(* ------------------- topology discovery on any rows ------------------- *)
\* Names a plant table can hold: upper and lower case tanks and pumps, a
\* number of two digits, a name that matches neither pattern.
TopoNames == {"T1", "T2", "PU1", "Reservoir", "T10", "t3", "p2"}

\* Before topology discovery, for any distinct rows in any order.
InitTopo ==
    /\ names \in UNION {Orderings(S) : S \in SUBSET TopoNames}
    /\ store_time = None
    /\ store_plant = [n \in Range(names) |-> 0]
    /\ pc = "topo"
    /\ tanks = <<>>
    /\ pumps = <<>>
    /\ k_attack = <<>>
    /\ cusum_state = <<>>
    /\ inv_prev = <<>>
    /\ inv_badcnt = <<>>
    /\ long_term_buffers = <<>>
    /\ last_block_mean = <<>>
    /\ last_time = 0 - 1
    /\ current_time = None
    /\ state = <<>>
    /\ alerts = <<>>
    /\ alerts_of = "none"
    /\ idle = FALSE
    /\ forwarded = <<>>
    /\ passes = 0
    /\ fed_seq = <<>>
    /\ cusum_calls = 0
    /\ pass_cusum_calls = 0
    /\ above_log = <<>>
    /\ start_persist = <<>>
    /\ inv_calls = 0
    /\ viol_run = <<>>
    /\ inv_before = [prev |-> <<>>, badcnt |-> <<>>]
    /\ unit_calls = 0
    /\ conn_opened = TRUE
    /\ conn_closes = 0
    /\ ended = None
    /\ mongo_docs = <<>>
    /\ json_log = <<>>
    /\ first_alert_flag = TRUE
    /\ sink_last = None
    /\ store_stage = "ready"
    /\ printed = <<>>
    /\ q_log = <<>>
    /\ q_result = None
    /\ dbm_connection = None
    /\ dbm_conns = <<>>
    /\ dbm_log = <<>>
    /\ store_hist = <<>>
    /\ th_input = None
    /\ th_result = None

\* lines 228-243 on the rows `names`
DiscoverNames ==
    /\ pc = "topo"
    /\ DiscoverWith(names)
    /\ pc' = "found"

NextTopo == DiscoverNames

SpecTopo == InitTopo /\ [][NextTopo]_vars

(* -------------------- the detectors called directly ------------------- *)
\* Largest number of direct calls of a detector.
MaxCalls == 5

\* Levels of the snapshots given to check_invariants: steps of exactly
\* DEAD_BAND, of a little more, and large ones.
InvLevels == {0, 1000, 2100, 50000}

InvSnapshots ==
    {f \in [StoreNames -> InvLevels \cup PumpValues \cup {0}] :
        \A n \in StoreNames :
            f[n] \in (IF MatchTank(n) THEN InvLevels ELSE RowValues(n))}

\* The state after topology discovery, before the first poll.
InitUnit ==
    /\ store_time = None
    /\ store_plant = [n \in StoreNames |-> 0]
    /\ pc = "unit"
    /\ tanks = Sorted({n \in StoreNames : MatchTank(n)})
    /\ pumps = Sorted({n \in StoreNames : MatchPump(n)})
    /\ k_attack = [t \in Range(tanks) |-> K_ATTACK_SEED]
    /\ cusum_state = [t \in Range(tanks) |-> [buffer |-> <<>>, C_plus |-> 0, C_minus |-> 0]]
    /\ inv_prev = <<>>
    /\ inv_badcnt = <<>>
    /\ long_term_buffers = [t \in Range(tanks) |-> <<>>]
    /\ last_block_mean = [t \in Range(tanks) |-> None]
    /\ last_time = 0 - 1
    /\ current_time = None
    /\ state = <<>>
    /\ alerts = <<>>
    /\ alerts_of = "none"
    /\ idle = FALSE
    /\ forwarded = <<>>
    /\ passes = 0
    /\ fed_seq = <<>>
    /\ cusum_calls = 0
    /\ pass_cusum_calls = 0
    /\ above_log = [t \in Range(tanks) |-> <<>>]
    /\ start_persist = [t \in Range(tanks) |-> 0]
    /\ inv_calls = 0
    /\ viol_run = <<>>
    /\ inv_before = [prev |-> <<>>, badcnt |-> <<>>]
    /\ names = <<>>
    /\ unit_calls = 0
    /\ conn_opened = TRUE
    /\ conn_closes = 0
    /\ ended = None
    /\ mongo_docs = <<>>
    /\ json_log = <<>>
    /\ first_alert_flag = TRUE
    /\ sink_last = None
    /\ store_stage = "ready"
    /\ printed = <<>>
    /\ q_log = <<>>
    /\ q_result = None
    /\ dbm_connection = None
    /\ dbm_conns = <<>>
    /\ dbm_log = <<>>
    /\ store_hist = <<>>
    /\ th_input = None
    /\ th_result = None

\* check_invariants(state, current_time) on any snapshot.
InvCall ==
    /\ pc = "unit"
    /\ inv_calls < MaxCalls
    /\ \E snap \in InvSnapshots :
          /\ state' = snap
          /\ CallInvariants(check_invariants(inv_prev, inv_badcnt, snap, inv_calls,
                                             tanks, pumps))
    /\ UNCHANGED <<unitVars, startVars, harnessVars, lifeVars, sinkVars,
                   storeVars, pc, topoVars, cusumVars, driftVars, last_time,
                   current_time, idle, forwarded, passes, fed_seq>>

NextInv == InvCall

SpecInv == InitUnit /\ [][NextInv]_vars

\* Levels of the snapshots given to check_drift: block means that differ by
\* exactly DRIFT_THRESHOLD, by a little more, and by much more.
DriftLevels == {0, 6000, 6200, 50000}

DriftSnapshots ==
    {f \in [StoreNames -> DriftLevels \cup {0}] :
        \A n \in StoreNames :
            f[n] \in (IF MatchTank(n) THEN DriftLevels ELSE {0})}

\* check_drift(state, current_time) on any snapshot.
DriftCall ==
    /\ pc = "unit"
    /\ unit_calls < MaxCalls
    /\ \E snap \in DriftSnapshots :
          LET r == check_drift(long_term_buffers, last_block_mean, snap, unit_calls, tanks)
          IN  /\ state' = snap
              /\ long_term_buffers' = r.long_term_buffers
              /\ last_block_mean' = r.last_block_mean
              /\ alerts' = r.alerts
              /\ alerts_of' = "drift"
    /\ unit_calls' = unit_calls + 1
    /\ UNCHANGED <<unitVars, startVars,
                   names, lifeVars, sinkVars, storeVars, pc, topoVars, cusumVars,
                   invVars, last_time, current_time, idle, forwarded, passes, fed_seq>>

NextDrift == DriftCall

SpecDrift == InitUnit /\ [][NextDrift]_vars

(* ---------- write_alert of modules/connection_processor.py ------------ *)
\* Largest number of calls of write_alert.
MaxWrites == 3

\* What the document store does in the first try block: the insert succeeds,
\* alerts_collection_func() returns None, it raises, insert_one raises.
MongoOutcomes == {"inserted", "no_collection", "get_raises", "insert_raises"}

\* What the file system does in the second try block: all writes succeed,
\* open() raises, the write of the separator raises, the write of the
\* document raises.
JsonOutcomes == {"written", "open_raises", "sep_raises", "dump_raises"}

\* lines 223-231: the first try block
MongoBlock(alert, m) ==
    [docs |-> IF m = "inserted" THEN <<alert>> ELSE <<>>,
     attempted |-> m \in {"inserted", "insert_raises"},
     error |-> m \in {"get_raises", "insert_raises"}]

\* lines 233-240: the second try block; the pieces are what reaches the file
JsonBlock(alert, j, flag) ==
    LET sep == IF flag THEN <<>> ELSE << [kind |-> "sep", alert |-> 0] >>
    IN  IF j = "open_raises" \/ (j = "sep_raises" /\ ~flag)
        THEN [pieces |-> <<>>, flag |-> flag, error |-> TRUE]
        ELSE IF j = "dump_raises"
        THEN [pieces |-> sep, flag |-> flag, error |-> TRUE]
        ELSE [pieces |-> sep \o << [kind |-> "doc", alert |-> alert] >>,
              flag |-> FALSE, error |-> FALSE]

\* lines 230 and 239: `except Exception` handles every error of its block
Handled(error) == TRUE

\* Mutant of JsonReached: one try block around both sinks.
JsonReached_OneTry(mb) == ~mb.error

\* line 233 follows the handler of line 230: the second try block is entered
\* whenever the error of the first, if any, was handled
JsonReached(mb) == mb.error => Handled(mb.error)

\* write_alert(alert, alerts_collection_func, net_alerts_json_file, first_alert_flag)
write_alert(alert, m, j, flag) ==
    LET mb == MongoBlock(alert, m)
        jb == IF JsonReached(mb) THEN JsonBlock(alert, j, flag)
              ELSE [pieces |-> <<>>, flag |-> flag, error |-> FALSE]
    IN  [docs |-> mb.docs,
         pieces |-> jb.pieces,
         flag |-> jb.flag,
         insert_attempted |-> mb.attempted,
         raised |-> (mb.error /\ ~Handled(mb.error)) \/ (jb.error /\ ~Handled(jb.error))]

\* AlertManager.write_alert (alert_manager.py, lines 53-65) with any behaviour
\* of the two sinks; the alert is numbered by the call.
SinkCall ==
    /\ pc = "unit"
    /\ unit_calls < MaxWrites
    /\ \E m \in MongoOutcomes, j \in JsonOutcomes :
          /\ j = "sep_raises" => ~first_alert_flag
          /\ LET r == write_alert(unit_calls + 1, m, j, first_alert_flag)
             IN  /\ mongo_docs' = mongo_docs \o r.docs
                 /\ json_log' = json_log \o r.pieces
                 /\ first_alert_flag' = IF r.raised THEN first_alert_flag ELSE r.flag
                 /\ sink_last' = Some([alert |-> unit_calls + 1, mongo |-> m, json |-> j,
                                       insert_attempted |-> r.insert_attempted,
                                       raised |-> r.raised])
    /\ unit_calls' = unit_calls + 1
    /\ UNCHANGED <<unitVars, startVars,
                   names, lifeVars, storeVars, pc, topoVars, cusumVars, invVars, driftVars,
                   last_time, current_time, state, alerts, alerts_of, idle, forwarded,
                   passes, fed_seq>>

NextSink == SinkCall

SpecSink == InitUnit /\ [][NextSink]_vars

(* --------------- the detectors on snapshots with missing rows --------- *)
\* Largest number of snapshots given to the three detectors.
MaxPartial == 3

\* Snapshots in which any of T1, T2 and PU1 can be missing.
PartialSnapshots ==
    UNION {{[n \in D |-> f[n]] : f \in {g \in Snapshots : g["T2"] # 0}} :
              D \in {E \cup {"Reservoir"} : E \in SUBSET {"T1", "T2", "PU1"}}}

\* check_cusum(state, current_time) on any such snapshot
PartialCusum ==
    /\ pc = "unit"
    /\ unit_calls < MaxPartial
    /\ \E snap \in PartialSnapshots :
          /\ state' = snap
          /\ CallCusum(check_cusum(cusum_state, snap, unit_calls, tanks, k_attack))
    /\ pc' = "unit_inv"
    /\ UNCHANGED <<unitVars, startVars, harnessVars, lifeVars, sinkVars, storeVars,
                   topoVars, start_persist, invVars, driftVars, last_time, current_time,
                   idle, forwarded, passes, fed_seq>>

\* check_invariants(state, current_time) on the same snapshot
PartialInvariants ==
    /\ pc = "unit_inv"
    /\ CallInvariants(check_invariants(inv_prev, inv_badcnt, state, unit_calls, tanks, pumps))
    /\ pc' = "unit_drift"
    /\ UNCHANGED <<unitVars, startVars, harnessVars, lifeVars, sinkVars, storeVars,
                   topoVars, cusumVars, driftVars, last_time, current_time, state,
                   idle, forwarded, passes, fed_seq>>

\* check_drift(state, current_time) on the same snapshot
PartialDrift ==
    /\ pc = "unit_drift"
    /\ LET r == check_drift(long_term_buffers, last_block_mean, state, unit_calls, tanks)
       IN  /\ long_term_buffers' = r.long_term_buffers
           /\ last_block_mean' = r.last_block_mean
           /\ alerts' = r.alerts
           /\ alerts_of' = "drift"
    /\ unit_calls' = unit_calls + 1
    /\ pc' = "unit"
    /\ UNCHANGED <<unitVars, startVars, names, lifeVars, sinkVars, storeVars,
                   topoVars, cusumVars, invVars, last_time, current_time, state,
                   idle, forwarded, passes, fed_seq>>

NextPartial ==
    \/ PartialCusum
    \/ PartialInvariants
    \/ PartialDrift

SpecPartial == InitUnit /\ [][NextPartial]_vars

(* ---------------------------- DatabaseManager -------------------------- *)
\* database_manager.py, lines 30-39: connect() opens a connection and holds it
\* in place of the one held before, which it does not close.
connect(connection, conns) ==
    [connection |-> Some(Len(conns) + 1), conns |-> Append(conns, 0)]

\* Mutant of close: the closed connection stays in self.connection.
close_KeepsConnection(connection, conns) ==
    IF connection # None
    THEN [connection |-> connection, conns |-> [conns EXCEPT ![connection[1]] = @ + 1]]
    ELSE [connection |-> connection, conns |-> conns]

\* database_manager.py, lines 67-72
close(connection, conns) ==
    IF connection # None
    THEN [connection |-> None, conns |-> [conns EXCEPT ![connection[1]] = @ + 1]]
    ELSE [connection |-> connection, conns |-> conns]

DbmCalled(op, raised) ==
    /\ pc = "unit"
    /\ Len(dbm_log) < MaxCalls
    /\ dbm_log' = Append(dbm_log, [op |-> op, raised |-> raised])
    /\ UNCHANGED <<q_log, q_result, store_hist, th_input, th_result, startVars, harnessVars,
                   lifeVars, sinkVars, storeVars, pc, topoVars, cusumVars, invVars,
                   driftVars, last_time, current_time, state, alerts, alerts_of, idle,
                   forwarded, passes, fed_seq>>

DbmConnect ==
    /\ DbmCalled("connect", FALSE)
    /\ LET r == connect(dbm_connection, dbm_conns)
       IN  dbm_connection' = r.connection /\ dbm_conns' = r.conns

DbmClose ==
    /\ DbmCalled("close", FALSE)
    /\ LET r == close(dbm_connection, dbm_conns)
       IN  dbm_connection' = r.connection /\ dbm_conns' = r.conns

\* lines 41-53, with the plant table present: RuntimeError without a connection
DbmWaitForSchema ==
    /\ DbmCalled("wait_for_schema", dbm_connection = None)
    /\ UNCHANGED <<dbm_connection, dbm_conns>>

\* lines 55-65: RuntimeError without a connection
DbmGetCurrentIteration ==
    /\ DbmCalled("get_current_iteration", dbm_connection = None)
    /\ UNCHANGED <<dbm_connection, dbm_conns>>

NextDbm ==
    \/ DbmConnect
    \/ DbmClose
    \/ DbmWaitForSchema
    \/ DbmGetCurrentIteration

SpecDbm == InitUnit /\ [][NextDbm]_vars

(* ------------- compute_threshold_and_residual, every mode -------------- *)
\* The settings the comment of line 28 lists for threshold_mode.
ThresholdModes == {"mean", "mad", "flat"}

\* Levels of the window and of the new sample (units of 1e-4).
ThresholdLevels == {0, 20000, 50000, 60000}

ThresholdInputs ==
    [threshold_mode : ThresholdModes,
     buffer : [1..W -> ThresholdLevels],
     x_t : ThresholdLevels]

\* One call of compute_threshold_and_residual for tank T1 under some setting
\* of threshold_mode.
ThresholdCall ==
    /\ pc = "unit"
    /\ \E i \in ThresholdInputs :
          /\ th_input' = Some(i)
          /\ th_result' =
                Some([raised |-> FALSE,
                      value |-> ThresholdAndResidual(i.threshold_mode, i.buffer, i.x_t, "T1",
                                                     [t \in {"T1"} |-> K_ATTACK_SEED])])
    /\ UNCHANGED <<q_log, q_result, dbm_connection, dbm_conns, dbm_log, store_hist, startVars,
                   harnessVars, lifeVars, sinkVars, storeVars, pc, topoVars, cusumVars,
                   invVars, driftVars, last_time, current_time, state, alerts, alerts_of,
                   idle, forwarded, passes, fed_seq>>

NextThreshold == ThresholdCall

SpecThreshold == InitUnit /\ [][NextThreshold]_vars

(* ---------------- one detection step of check_cusum, every mode -------- *)
\* Levels of the window and of the new sample (units of 1e-4): windows as
\* narrow as one value and as wide as 5.0.
StepLevels == {0, 20000, 50000}

\* Values of C_plus and C_minus before the step.
StepSums == {0, 90000, 130000}

StepInputs ==
    [threshold_mode : ThresholdModes,
     buffer : [1..W -> StepLevels],
     C_plus : StepSums,
     C_minus : StepSums,
     x_t : StepLevels]

\* One detection step of check_cusum for tank T1, on a full window, under some
\* setting of threshold_mode.
CusumStep ==
    /\ pc = "unit"
    /\ th_result = None
    /\ \E i \in StepInputs :
          /\ th_input' = Some(i)
          /\ th_result' =
                Some(CusumTankIn(i.threshold_mode,
                                 [buffer |-> i.buffer, C_plus |-> i.C_plus,
                                  C_minus |-> i.C_minus],
                                 i.x_t, "T1", 0, [t \in {"T1"} |-> K_ATTACK_SEED]))
    /\ UNCHANGED <<q_log, q_result, dbm_connection, dbm_conns, dbm_log, store_hist, startVars,
                   harnessVars, lifeVars, sinkVars, storeVars, pc, topoVars, cusumVars,
                   invVars, driftVars, last_time, current_time, state, alerts, alerts_of,
                   idle, forwarded, passes, fed_seq>>

NextStep == CusumStep

SpecStep == InitUnit /\ [][NextStep]_vars

(* -------- the detectors after a discovery that missed some names ------- *)
\* Before discovery, the plant table holding any of the four names.
InitLate == InitTopo /\ names \in {Sorted(S) : S \in SUBSET StoreNames}

\* lines 228-243 on the rows `names`
DiscoverLate ==
    /\ pc = "topo"
    /\ DiscoverWith(names)
    /\ pc' = "unit"

\* check_cusum(state, current_time) on a snapshot with all four names
LateCusum ==
    /\ pc = "unit"
    /\ unit_calls < MaxPartial
    /\ \E snap \in Snapshots :
          /\ state' = snap
          /\ CallCusum(check_cusum(cusum_state, snap, unit_calls, tanks, k_attack))
    /\ pc' = "unit_inv"
    /\ UNCHANGED <<unitVars, startVars, harnessVars, lifeVars, sinkVars, storeVars,
                   topoVars, start_persist, invVars, driftVars, last_time, current_time,
                   idle, forwarded, passes, fed_seq>>

NextLate ==
    \/ DiscoverLate
    \/ LateCusum
    \/ PartialInvariants
    \/ PartialDrift

SpecLate == InitLate /\ [][NextLate]_vars

(* ----------------------------- safe_db_query -------------------------- *)
\* Largest number of attempts of one call (the code has no limit).
MaxAttempts == 4

\* Messages of sqlite3.OperationalError: two of lock contention, two others.
LockedMessages == {"database is locked", "database table is locked"}
OperationalMessages == LockedMessages \cup {"no such table: plant", "disk I/O error"}

\* Rows a query for master_time can return.
QueryRows == {<<>>, <<0>>, <<3>>}

\* What the store answers to one attempt: rows, an sqlite3.OperationalError,
\* or an error of another class (sqlite3.DatabaseError).
Answers ==
    {[kind |-> "rows", msg |-> "", rows |-> r] : r \in QueryRows}
    \cup {[kind |-> "operational", msg |-> m, rows |-> <<>>] : m \in OperationalMessages}
    \cup {[kind |-> "error", msg |-> "database disk image is malformed", rows |-> <<>>]}

\* Mutant of IsLockError: every sqlite3.OperationalError is retried.
IsLockError_AnyOperational(a) == a.kind = "operational"

\* lines 53-54: except sqlite3.OperationalError, "locked" in str(e).lower()
IsLockError(a) == a.kind = "operational" /\ a.msg \in LockedMessages

\* One turn of the `while True` of safe_db_query (lines 48-57): None when the
\* loop goes round again, otherwise what the call returns or raises.
safe_db_query(a) ==
    IF a.kind = "rows" THEN Some([outcome |-> "returned", rows |-> a.rows, msg |-> ""])
    ELSE IF IsLockError(a) THEN None
    ELSE Some([outcome |-> "raised", rows |-> <<>>, msg |-> a.msg])

\* An attempt of the running call, with any answer of the store.
QueryAttempt ==
    /\ pc = "unit"
    /\ q_result = None
    /\ Len(q_log) < MaxAttempts
    /\ \E a \in Answers :
          /\ q_log' = Append(q_log, a)
          /\ q_result' = safe_db_query(a)
    /\ UNCHANGED <<dbm_connection, dbm_conns, dbm_log, store_hist, th_input, th_result,
                   startVars, harnessVars,
                   lifeVars, sinkVars, storeVars, pc, topoVars, cusumVars, invVars,
                   driftVars, last_time, current_time, state, alerts, alerts_of, idle,
                   forwarded, passes, fed_seq>>

NextQuery == QueryAttempt

SpecQuery == InitUnit /\ [][NextQuery]_vars

(* -------------------------- GenericPLC.db_query ------------------------ *)
\* generic_plc.py, line 35
DB_TRIES == 10

\* What the store answers to one attempt of db_query: a row, no row, an
\* sqlite3.OperationalError (from connect, the PRAGMA or the query), or an
\* error of another class (sqlite3.IntegrityError).
PlcAnswers ==
    {[kind |-> "row", value |-> v, msg |-> ""] : v \in {0, 3}}
    \cup {[kind |-> "no_row", value |-> 0, msg |-> ""]}
    \cup {[kind |-> "operational", value |-> 0, msg |-> m] :
              m \in {"database is locked", "unable to open database file"}}
    \cup {[kind |-> "error", value |-> 0, msg |-> "IntegrityError"]}

\* Mutant of Retried: every exception is caught and retried.
Retried_AnyError(a) == a.kind \in {"operational", "error"}

\* generic_plc.py, line 269: except sqlite3.OperationalError
Retried(a) == a.kind = "operational"

\* Attempt number i (0-based, lines 258-273) of db_query with answer a: None
\* when the loop goes on, otherwise what the call returns or raises.  With
\* write the call returns None after the commit; without it returns
\* fetchone()[0], which raises TypeError when there is no row.
db_query(i, a, write) ==
    IF Retried(a)
    THEN IF i + 1 < DB_TRIES THEN None
         ELSE Some([outcome |-> "raised", value |-> None, msg |-> "DatabaseError"])
    ELSE IF a.kind = "error"
    THEN Some([outcome |-> "raised", value |-> None, msg |-> a.msg])
    ELSE IF write THEN Some([outcome |-> "returned", value |-> None, msg |-> ""])
    ELSE IF a.kind = "no_row"
    THEN Some([outcome |-> "raised", value |-> None, msg |-> "TypeError"])
    ELSE Some([outcome |-> "returned", value |-> Some(a.value), msg |-> ""])

\* One attempt of the running call; the first one fixes the argument `write`.
PlcAttempt ==
    /\ pc = "unit"
    /\ q_result = None
    /\ \E w \in BOOLEAN :
          /\ th_input' = Some([write |-> w])
          /\ q_log # <<>> => th_input' = th_input
          /\ \E a \in PlcAnswers :
                /\ q_log' = Append(q_log, a)
                /\ q_result' = db_query(Len(q_log), a, w)
    /\ UNCHANGED <<dbm_connection, dbm_conns, dbm_log, store_hist, th_result,
                   startVars, harnessVars, lifeVars, sinkVars, storeVars, pc, topoVars,
                   cusumVars, invVars, driftVars, last_time, current_time, state, alerts,
                   alerts_of, idle, forwarded, passes, fed_seq>>

NextPlc == PlcAttempt

SpecPlc == InitUnit /\ [][NextPlc]_vars

(* ------------------------------- claims ------------------------------- *)
HasAlert(as, kind, tank) ==
    \E k \in 1..Len(as) : as[k].types = kind /\ as[k].tank = tank

RECURSIVE TrailingTrue(_)
TrailingTrue(log) ==
    IF log = <<>> \/ ~log[Len(log)] THEN 0
    ELSE 1 + TrailingTrue(SubSeq(log, 1, Len(log) - 1))

AfterFirstCall == pc \in {"cusum", "inv", "drift", "summary"}

C2_NoIterationFedTwice ==
    \A k \in 1..Len(fed_seq) : FedCount(fed_seq, fed_seq[k]) <= 1

\* C3: a poll that reads no value or the id of the last completed pass is a
\* no-op: it only goes to sleep, and the sleep that follows only polls again;
\* no detector state, alert or record of the loop changes.
C3_RepeatedPollIsNoOp ==
    [][ /\ ( /\ pc = "poll"
             /\ pc' # "poll"
             /\ store_time = None \/ store_time = Some(last_time) )
          => ( /\ pc' = "sleep"
               /\ idle'
               /\ UNCHANGED <<detectorVars, alerts, forwarded, fed_seq, cusum_calls,
                              last_time, passes>> )
        /\ ( idle /\ pc = "sleep" )
          => ( /\ pc' \in {"sleep", "poll"}
               /\ UNCHANGED <<detectorVars, alerts, forwarded, fed_seq, cusum_calls,
                              last_time, passes>> )
      ]_vars

\* C3 witness: after a completed pass for iteration last_time, a poll read the
\* same id again and the loop sleeps.
C3_Witness ==
    idle /\ pc = "sleep" /\ last_time >= 0 /\ current_time = Some(last_time)

\* C4: during the first W calls of check_cusum a tank's window only grows by
\* the sample: C_plus and C_minus stay 0, no threshold or persistence counter
\* is stored and no CUSUM_ALARM is returned; the (W+1)-th call runs detection.
C4_WarmupGate ==
    \A t \in Range(tanks) :
        /\ cusum_calls <= W =>
              /\ Len(cusum_state[t].buffer) = cusum_calls
              /\ cusum_state[t].C_plus = 0
              /\ cusum_state[t].C_minus = 0
              /\ DOMAIN cusum_state[t] = {"buffer", "C_plus", "C_minus"}
              /\ alerts_of = "cusum" => ~HasAlert(alerts, "CUSUM_ALARM", t)
        /\ cusum_calls > W =>
              /\ Len(cusum_state[t].buffer) = W
              /\ "persist" \in DOMAIN cusum_state[t]
              /\ Len(above_log[t]) = Min(cusum_calls - W, PERSISTENCE_THRESHOLD + 1)

\* C4 witness: the (W+1)-th call has run detection on full windows.
C4_Witness ==
    /\ tanks # <<>>
    /\ cusum_calls = W + 1
    /\ \A t \in Range(tanks) : "persist" \in DOMAIN cusum_state[t]

\* C5: C_plus and C_minus of every tank are never negative.
C5_NonNegative ==
    \A t \in DOMAIN cusum_state :
        cusum_state[t].C_plus >= 0 /\ cusum_state[t].C_minus >= 0

\* C5 witness: a detection step raised C_plus while the clamp kept C_minus at 0.
C5_Witness ==
    \E t \in DOMAIN cusum_state :
        /\ "h_t" \in DOMAIN cusum_state[t]
        /\ cusum_state[t].C_plus > 0
        /\ cusum_state[t].C_minus = 0

\* C6: no CUSUM_ALARM of a tank is forwarded in a pass that the loop began with
\* the tank's persistence counter below PERSISTENCE_THRESHOLD - 1 (from a
\* counter of 0 a single processed iteration above the threshold gives no alarm).
C6_NoAlarmInOnePass ==
    \A k \in 1..Len(forwarded) :
        forwarded[k].types = "CUSUM_ALARM" =>
            start_persist[forwarded[k].tank] >= PERSISTENCE_THRESHOLD - 1

\* C7: after a detection call of check_cusum the persistence counter is in
\* 0..PERSISTENCE_THRESHOLD and equals the number of the latest consecutive
\* calls with `above` true, clamped; the call returns a CUSUM_ALARM exactly when
\* `above` was true on it and on the PERSISTENCE_THRESHOLD - 1 calls before it
\* (so it fires again on every further call above, and the counter is 0 after
\* a call with `above` false).
C7_CusumRefires ==
    \A t \in Range(tanks) :
        "persist" \in DOMAIN cusum_state[t] =>
            /\ cusum_state[t].persist \in 0..PERSISTENCE_THRESHOLD
            /\ cusum_state[t].persist =
                  Min(TrailingTrue(above_log[t]), PERSISTENCE_THRESHOLD)
            /\ alerts_of = "cusum" =>
                  ( HasAlert(alerts, "CUSUM_ALARM", t)
                      <=> TrailingTrue(above_log[t]) >= PERSISTENCE_THRESHOLD )

\* C7 witness: the alarm fired again on a call after the one that first fired.
C7_Witness ==
    \E t \in Range(tanks) :
        /\ alerts_of = "cusum"
        /\ HasAlert(alerts, "CUSUM_ALARM", t)
        /\ TrailingTrue(above_log[t]) = PERSISTENCE_THRESHOLD + 1

\* C8: check_cusum runs at most once in a pass of the loop.
C8_CusumOncePerPass == pass_cusum_calls <= 1

InvAlert(t) == HasAlert(alerts, "INVARIANT_VIOLATION", t)

\* A violation of tank t was counted by the latest call of check_invariants:
\* it raised the counter by one or fired the alert.
Counted(t) ==
    \/ InvAlert(t)
    \/ Get(inv_badcnt, t, 0) = Get(inv_before.badcnt, t, 0) + 1

\* C9: a call of check_invariants counts a violation of a tank exactly when the
\* pumps are on and the level fell by strictly more than DEAD_BAND, or the
\* pumps are off and it rose by strictly more than DEAD_BAND; any other change
\* (exactly DEAD_BAND included) leaves the counter at 0 and gives no alert.
C9_StrictDeadBand ==
    alerts_of = "inv" =>
        \A t \in Range(tanks) \cap DOMAIN inv_before.prev :
            LET was == inv_before.prev[t]
                now == state[t]
                on == \E p \in Range(pumps) : state[p] # 0
            IN  /\ Counted(t) <=> ( (on /\ now < was - DEAD_BAND)
                                    \/ (~on /\ now > was + DEAD_BAND) )
                /\ ~Counted(t) => inv_badcnt[t] = 0 /\ ~InvAlert(t)

\* C9 witness: with the pumps off a level rose by exactly DEAD_BAND after a
\* counted violation, and the counter is back at 0.
C9_Witness ==
    /\ alerts_of = "inv"
    /\ \E t \in Range(tanks) \cap DOMAIN inv_before.prev :
          /\ \A p \in Range(pumps) : state[p] = 0
          /\ state[t] = inv_before.prev[t] + DEAD_BAND
          /\ Get(inv_before.badcnt, t, 0) = 1
          /\ inv_badcnt[t] = 0

\* C10: in a run of consecutive violating calls that starts from a counter of
\* 0, check_invariants returns an INVARIANT_VIOLATION on the calls numbered
\* INV_PERSIST, 2*INV_PERSIST, ... of the run and on no other, the counter is
\* 0 after each alert, and a call without violation leaves the counter at 0
\* and returns no alert.
C10_InvariantPersistence ==
    alerts_of = "inv" =>
        \A t \in Range(tanks) \cap DOMAIN inv_before.prev :
            /\ InvAlert(t) <=> (viol_run[t] > 0 /\ viol_run[t] % INV_PERSIST = 0)
            /\ inv_badcnt[t] = viol_run[t] % INV_PERSIST
            /\ InvAlert(t) =>
                  \E k \in 1..Len(alerts) :
                      /\ alerts[k].types = "INVARIANT_VIOLATION"
                      /\ alerts[k].tank = t
                      /\ alerts[k].persist = INV_PERSIST

\* C10 witness: the second alert of one run, on its call number 2*INV_PERSIST.
C10_Witness ==
    /\ alerts_of = "inv"
    /\ \E t \in Range(tanks) : viol_run[t] = 2 * INV_PERSIST /\ InvAlert(t)

EmptyAlert(t) == HasAlert(alerts, "TANK_EMPTY", t)

\* C11 (as claimed): on every call of check_invariants a TANK_EMPTY alert is
\* returned for exactly the tanks whose level is 0.0, whether or not a previous
\* sample of the tank exists.
C11_TankEmptyUnconditional ==
    alerts_of = "inv" =>
        \A t \in Range(tanks) : EmptyAlert(t) <=> state[t] = 0

\* C12: on a call of check_invariants that is not the tank's first, or whose
\* level is not 0.0 (every call of a tank whose first level is non-zero is one
\* of the two), TANK_EMPTY is returned exactly when the level is 0.0, whatever
\* the violation counter; and the counter and the INVARIANT_VIOLATION alert of
\* the call are what the level change alone gives, with or without TANK_EMPTY.
C12_TankEmptyIndependent ==
    alerts_of = "inv" =>
        \A t \in Range(tanks) :
            /\ (t \in DOMAIN inv_before.prev \/ state[t] # 0) =>
                  (EmptyAlert(t) <=> state[t] = 0)
            /\ t \in DOMAIN inv_before.prev =>
                  LET on == \E p \in Range(pumps) : state[p] # 0
                      delta == state[t] - inv_before.prev[t]
                      bad == (on /\ delta < 0 - DEAD_BAND) \/ (~on /\ delta > DEAD_BAND)
                      cnt == IF bad THEN Get(inv_before.badcnt, t, 0) + 1 ELSE 0
                  IN  /\ InvAlert(t) <=> cnt >= INV_PERSIST
                      /\ inv_badcnt[t] = IF cnt >= INV_PERSIST THEN 0 ELSE cnt

\* C12 witness: a tank that fell to 0.0 with the pumps on gets TANK_EMPTY and
\* INVARIANT_VIOLATION from the same call, and its counter is reset.
C12_Witness ==
    /\ alerts_of = "inv"
    /\ \E t \in Range(tanks) :
          /\ t \in DOMAIN inv_before.prev
          /\ inv_before.prev[t] # 0
          /\ state[t] = 0
          /\ EmptyAlert(t)
          /\ InvAlert(t)
          /\ inv_badcnt[t] = 0

DriftAlert(as, t) == HasAlert(as, "MEAN_DRIFT", t)

\* C13: a call of check_drift evaluates block means only when after its append
\* every tank's buffer holds W samples; then, with or without a MEAN_DRIFT
\* alert, every tank's previous block mean becomes the mean of its block and
\* all buffers are cleared together (MEAN_DRIFT for the tanks whose mean moved
\* by more than DRIFT_THRESHOLD from an existing previous mean); on any other
\* call the buffers only grow by the sample, no previous mean changes and no
\* alert is returned.  The buffers of all tanks always have the same length.
C13_GlobalDriftBlocks ==
    [][ (alerts_of' = "drift" /\ (unit_calls' # unit_calls \/ pc = "drift")) =>
          LET after == [t \in Range(tanks) |-> Append(long_term_buffers[t], state'[t])]
              full == \A t \in Range(tanks) : Len(after[t]) >= W
          IN  /\ \A t, u \in Range(tanks) :
                    Len(long_term_buffers'[t]) = Len(long_term_buffers'[u])
              /\ full =>
                    \A t \in Range(tanks) :
                        /\ long_term_buffers'[t] = <<>>
                        /\ last_block_mean'[t] = Some(SeqSum(after[t]) \div W)
                        /\ DriftAlert(alerts', t) <=>
                              /\ last_block_mean[t] # None
                              /\ Abs(SeqSum(after[t]) \div W - last_block_mean[t][1])
                                    > DRIFT_THRESHOLD
              /\ ~full =>
                    /\ alerts' = <<>>
                    /\ \A t \in Range(tanks) :
                          /\ long_term_buffers'[t] = after[t]
                          /\ last_block_mean'[t] = last_block_mean[t]
      ]_vars

\* C13 witness: the call that ended the second block returned MEAN_DRIFT for
\* one tank only, and the buffers and previous means of both tanks were
\* replaced.
C13_Witness ==
    /\ alerts_of = "drift"
    /\ unit_calls = 2 * W
    /\ Len(alerts) = 1
    /\ \A t \in Range(tanks) :
          long_term_buffers[t] = <<>> /\ last_block_mean[t] # None

\* The list is in the strict order of str: sorted and without duplicates.
StrictlySorted(seq) ==
    \A k \in 1..(Len(seq) - 1) : CharsLess(NameChars(seq[k]), NameChars(seq[k + 1]))

\* C14: for any distinct names in any order, `tanks` is the sorted list without
\* duplicates of the names that are T or t followed by digits, `pumps` the one
\* of the names that are P or p, an optional U or u, then digits; the names
\* T1, T2, PU1, Reservoir give tanks = [T1, T2] and pumps = [PU1] in any order.
C14_DiscoveryDeterministic ==
    pc = "found" =>
        /\ StrictlySorted(tanks)
        /\ StrictlySorted(pumps)
        /\ Range(tanks) = Range(names) \cap {"T1", "T2", "T10", "t3"}
        /\ Range(pumps) = Range(names) \cap {"PU1", "p2"}
        /\ Range(names) = {"T1", "T2", "PU1", "Reservoir"} =>
              tanks = <<"T1", "T2">> /\ pumps = <<"PU1">>

\* C14 witness: the four names of the example returned out of order.
C14_Witness ==
    /\ pc = "found"
    /\ names = <<"T2", "Reservoir", "PU1", "T1">>
    /\ tanks = <<"T1", "T2">>
    /\ pumps = <<"PU1">>

ColdInvDrift ==
    /\ inv_calls = 0
    /\ inv_prev = <<>>
    /\ \A t \in Range(tanks) : long_term_buffers[t] = <<>> /\ last_block_mean[t] = None

C16_DeliveryFailureKeepsPass ==
    (pc = "sleep" /\ ~idle /\ forwarded # <<>>) =>
        /\ alerts_of = "drift"
        /\ last_time = current_time[1]

\* The document of alert a is the last piece of the JSON log.
JsonEndsWith(a) ==
    /\ json_log # <<>>
    /\ json_log[Len(json_log)] = [kind |-> "doc", alert |-> a]

\* C17: after a call of write_alert: it did not raise; if the document store
\* failed or gave no collection and the file writes succeeded, the alert is
\* the last document of the JSON log; if a file operation failed, the insert
\* was attempted whenever a collection was obtained, and a successful insert
\* is in the collection; each sink holds the alert exactly when its own
\* operations succeeded.
C17_SinksIndependent ==
    sink_last # None =>
        LET c == sink_last[1]
        IN  /\ ~c.raised
            /\ c.json = "written" <=> JsonEndsWith(c.alert)
            /\ c.json = "written" => ~first_alert_flag
            /\ c.mongo = "inserted" <=>
                  (mongo_docs # <<>> /\ mongo_docs[Len(mongo_docs)] = c.alert)
            /\ c.insert_attempted <=> c.mongo \in {"inserted", "insert_raises"}

\* C17 witness: the first alert reached only the collection (the file could
\* not be opened), the second only the JSON log (insert_one raised).
C17_Witness ==
    /\ sink_last # None
    /\ sink_last[1].mongo = "insert_raises"
    /\ sink_last[1].json = "written"
    /\ mongo_docs = <<1>>
    /\ json_log = << [kind |-> "doc", alert |-> 2] >>

\* C18: an exception raised in a pass of the loop (write_alert failing on an
\* alert, a store error of the snapshot reader) never ends monitor(): the
\* step leaves the loop running with the connection open, does not record the
\* iteration and keeps what the detectors stored in the pass (the sample stays
\* in every CUSUM window); only an interrupt ends the loop, and after the
\* sleep the loop polls again.
C18_PassExceptionNotFatal ==
    [][ /\ (pc \in {"read", "cusum", "inv", "drift"} /\ pc' = "sleep") =>
              /\ ended' = None
              /\ conn_closes' = conn_closes
              /\ last_time' = last_time
              /\ cusum_state' = cusum_state \/ pc = "cusum"
              /\ pc # "read" =>
                    \A t \in Range(tanks) :
                        cusum_state'[t].buffer[Len(cusum_state'[t].buffer)] = state[t]
        /\ (pc \in LoopPcs /\ ended' # None) => ended'[1].by = "interrupt"
        /\ (pc = "sleep" /\ pc' # "sleep") => pc' \in {"poll", "done"}
      ]_vars

\* C18 witness: a pass that handed an alert to write_alert was abandoned and
\* the loop is back at its poll.
C18_Witness ==
    /\ pc = "poll"
    /\ ended = None
    /\ forwarded # <<>>
    /\ current_time # None
    /\ last_time # current_time[1]

\* C19 (as claimed): on every path by which monitor() ends after the
\* connection was opened, the connection has been closed exactly once.
C19_ClosedExactlyOnce ==
    (ended # None /\ conn_opened) => conn_closes = 1

\* C20 (as claimed): an interrupt takes effect only between passes: it never
\* ends monitor() from a pass that has already updated detector state.
C20_NoMidPassInterrupt ==
    (ended # None /\ ended[1].by = "interrupt") => ended[1].at \notin MidPassPcs

\* The answer is a lock contention error.
Locked(a) ==
    a.kind = "operational"
    /\ a.msg \in {"database is locked", "database table is locked"}

\* C21: while every answer so far was a 'locked' operational error the call
\* of safe_db_query has neither returned nor raised, however many attempts it
\* made; it ends on the first answer that is not one: with that answer's rows
\* if the attempt succeeded, by raising that answer's error otherwise.
C21_RetryOnlyOnLock ==
    /\ q_result = None <=> \A k \in 1..Len(q_log) : Locked(q_log[k])
    /\ q_result # None =>
          LET n == Len(q_log)
              r == q_result[1]
          IN  /\ \A k \in 1..(n - 1) : Locked(q_log[k])
              /\ q_log[n].kind = "rows" =>
                    r.outcome = "returned" /\ r.rows = q_log[n].rows
              /\ q_log[n].kind # "rows" =>
                    r.outcome = "raised" /\ r.msg = q_log[n].msg

\* C21 witness: two attempts met lock contention and the third returned rows.
C21_Witness ==
    /\ Len(q_log) = 3
    /\ q_result = Some([outcome |-> "returned", rows |-> <<3>>, msg |-> ""])

\* C22 (as claimed): monitor() is at topology discovery only when the plant
\* table holds at least one row.
C22_DiscoveryNeedsRows ==
    pc = "discover" => store_plant # <<>>

\* C24: with zero tanks discovered no detector ever returns an alert and
\* nothing is handed to write_alert, and every pass that read a snapshot ends
\* after the drift detector and the summary with its iteration recorded.
C24_ZeroTanksNoError ==
    (tanks = <<>> /\ pc \in LoopPcs) =>
        /\ alerts = <<>>
        /\ forwarded = <<>>
        /\ \A k \in 1..Len(fed_seq) : FedCount(fed_seq, fed_seq[k]) = 1
        /\ (pc = "sleep" /\ ~idle) =>
              alerts_of = "drift" /\ last_time = current_time[1]

\* C24 witness: the second pass of a loop without tanks has been recorded.
C24_Witness ==
    /\ tanks = <<>>
    /\ pc = "sleep"
    /\ ~idle
    /\ passes = 2
    /\ last_time = current_time[1]

\* C25 (as claimed): when zero tanks were discovered, monitor() has printed a
\* warning (a message other than the three it prints after every discovery)
\* by the time it is in the polling loop.
C25_ZeroTankWarning ==
    (tanks = <<>> /\ pc \in LoopPcs) =>
        \E k \in 1..Len(printed) :
            printed[k] \notin {"Discovered tanks:", "Discovered pumps:",
                               "Initializing initial buffer of W"}

\* The snapshot with 0.0 for every name it lacks.
Filled(snap) == [n \in StoreNames |-> IF n \in DOMAIN snap THEN snap[n] ELSE 0]

\* C23: on a snapshot that lacks values of tanks or pumps every detector
\* completes, and what it stores and returns is what it stores and returns on
\* the snapshot with 0.0 in place of each missing value.
C23_MissingValueIsZero ==
    [][ /\ (pc = "unit" /\ pc' = "unit_inv") =>
              LET r == check_cusum(cusum_state, Filled(state'), unit_calls, tanks, k_attack)
              IN  cusum_state' = r.cusum_state /\ alerts' = r.alerts
        /\ (pc = "unit_inv" /\ pc' = "unit_drift") =>
              LET r == check_invariants(inv_prev, inv_badcnt, Filled(state), unit_calls,
                                        tanks, pumps)
              IN  /\ inv_prev' = r.inv_prev
                  /\ inv_badcnt' = r.inv_badcnt
                  /\ alerts' = r.alerts
        /\ (pc = "unit_drift" /\ pc' = "unit") =>
              LET r == check_drift(long_term_buffers, last_block_mean, Filled(state),
                                   unit_calls, tanks)
              IN  /\ long_term_buffers' = r.long_term_buffers
                  /\ last_block_mean' = r.last_block_mean
                  /\ alerts' = r.alerts
      ]_vars

\* C23 witness: check_invariants ran on a snapshot without T1 and without
\* PU1 after T1 was at 5.0: T1 counts as 0.0 (TANK_EMPTY, previous level 0.0,
\* 0.0 in its CUSUM window) and the pump as off.
C23_Witness ==
    /\ pc = "unit_drift"
    /\ "T1" \notin DOMAIN state
    /\ "PU1" \notin DOMAIN state
    /\ inv_before.prev = [t \in {"T1", "T2"} |-> 50000]
    /\ EmptyAlert("T1")
    /\ inv_prev["T1"] = 0
    /\ cusum_state["T1"].buffer[Len(cusum_state["T1"].buffer)] = 0

CloseCalled ==
    /\ Len(dbm_log') = Len(dbm_log) + 1
    /\ dbm_log'[Len(dbm_log')].op = "close"

\* C26: no connection of the DatabaseManager is ever closed twice and a
\* closed one stays closed; a call of close() raises nothing, closes the
\* connection held (once) and leaves none held, and with no connection held
\* it changes nothing.
C26_CloseIdempotent ==
    [][ /\ \A k \in 1..Len(dbm_conns) : dbm_conns[k] <= dbm_conns'[k] /\ dbm_conns'[k] <= 1
        /\ CloseCalled =>
              /\ ~dbm_log'[Len(dbm_log')].raised
              /\ dbm_connection' = None
              /\ dbm_connection = None => dbm_conns' = dbm_conns
              /\ dbm_connection # None =>
                    /\ dbm_conns'[dbm_connection[1]] = 1
                    /\ \A k \in 1..Len(dbm_conns) :
                          k # dbm_connection[1] => dbm_conns'[k] = dbm_conns[k]
      ]_vars

\* C26 witness: connect(), then close() three times: the connection was closed
\* once and none is held.
C26_Witness ==
    /\ Len(dbm_log) = 4
    /\ dbm_log[1].op = "connect"
    /\ \A k \in 2..4 : dbm_log[k].op = "close" /\ ~dbm_log[k].raised
    /\ dbm_conns = <<1>>
    /\ dbm_connection = None

\* C27: a call of compute_threshold_and_residual with threshold_mode set to
\* 'flat' ends with a configuration error.
C27_FlatFailsFast ==
    (th_result # None /\ th_input[1].threshold_mode = "flat") => th_result[1].raised

\* Position of an alert's detector in the order of the pass.
DetectorRank(a) ==
    IF a.types = "CUSUM_ALARM" THEN 1
    ELSE IF a.types \in {"INVARIANT_VIOLATION", "TANK_EMPTY"} THEN 2
    ELSE 3

\* C28: in a full detection pass check_cusum is followed by check_invariants,
\* check_invariants by check_drift and check_drift by the summary, each after
\* its alerts were forwarded; the alerts forwarded for one iteration are in
\* the order CUSUM_ALARM, then INVARIANT_VIOLATION and TANK_EMPTY, then
\* MEAN_DRIFT.
C28_FixedDetectorOrder ==
    [][ /\ (pc = "cusum" /\ pc' # pc) => pc' = "inv"
        /\ (pc = "inv" /\ pc' # pc) => pc' = "drift"
        /\ (pc = "drift" /\ pc' # pc) => pc' = "summary"
        /\ \A j, k \in 1..Len(forwarded') :
              (j < k /\ forwarded'[j].iteration = forwarded'[k].iteration) =>
                  DetectorRank(forwarded'[j]) <= DetectorRank(forwarded'[k])
      ]_vars

\* Every tank's CUSUM window holds W samples.
AllWindowsFull == \A t \in Range(tanks) : Len(cusum_state[t].buffer) = W

C30_NoLookahead ==
    [][ (cusum_calls' # cusum_calls /\ tanks # <<>> /\ AllWindowsFull) =>
            \A k \in 1..Len(fed_seq) : fed_seq[k] < current_time[1]
      ]_vars

\* 3.0 times the dispersion of the window of the step's input, unclamped
\* (units of 1e-8).
StepRawH ==
    LET i == th_input[1]
    IN  H_FACTOR * (IF i.threshold_mode = "mad"
                    THEN Max(MAD_FACTOR * MeanAbsDev(i.buffer), DISPERSION_FLOOR)
                    ELSE Max(FINE * Std(i.buffer), DISPERSION_FLOOR))

\* C31: after a detection step the stored h_t is in [MIN_H, MAX_H] (MIN_H when
\* 3.0 times the dispersion is below it, MAX_H when above it), under every
\* setting of threshold_mode, and `above` of the step is the comparison of the
\* stored C_plus and C_minus with the stored h_t.
C31_ThresholdClamped ==
    th_result # None =>
        LET r == th_result[1]
        IN  /\ r.detected
            /\ r.st.h_t >= MIN_H /\ r.st.h_t <= MAX_H
            /\ StepRawH <= MIN_H * FINE => r.st.h_t = MIN_H
            /\ StepRawH >= MAX_H * FINE => r.st.h_t = MAX_H
            /\ r.above <=> (r.st.C_plus > r.st.h_t \/ r.st.C_minus > r.st.h_t)

\* C31 witness: a step under mode "mad" on a window whose 3.0 * rolling_mad is
\* above MAX_H: h_t is MAX_H, and C_plus lies between MAX_H and the unclamped
\* value, so `above` is true only because of the clamp.
C31_Witness ==
    /\ th_result # None
    /\ th_input[1].threshold_mode = "mad"
    /\ th_result[1].st.h_t = MAX_H
    /\ th_result[1].st.C_plus > MAX_H
    /\ th_result[1].st.C_plus * FINE < StepRawH
    /\ th_result[1].st.C_minus = 0
    /\ th_result[1].above

\* C32: a call of check_invariants leaves the level of its snapshot as the
\* stored previous level of every tank; on a tank's first sample no counter
\* is written and no INVARIANT_VIOLATION is returned; on a later call the
\* previous level is the level of the call before, the violation is decided
\* by the difference to it, and an alert carries it as `prev`.
C32_PrevAlwaysStored ==
    [][ inv_calls' # inv_calls =>
          \A t \in Range(tanks) :
              /\ inv_prev'[t] = state'[t]
              /\ t \notin DOMAIN inv_prev =>
                    /\ t \notin DOMAIN inv_badcnt'
                    /\ ~HasAlert(alerts', "INVARIANT_VIOLATION", t)
              /\ t \in DOMAIN inv_prev =>
                    /\ inv_prev[t] = state[t]
                    /\ viol_run'[t] > 0 <=>
                          Violated(PumpOn(state', pumps), state'[t] - state[t])
                    /\ \A k \in 1..Len(alerts') :
                          (alerts'[k].types = "INVARIANT_VIOLATION" /\ alerts'[k].tank = t)
                              => alerts'[k].prev = state[t] /\ alerts'[k].level = state'[t]
      ]_vars

\* C32 witness: a call that fired an INVARIANT_VIOLATION for a tank stored the
\* new level, and the call before it, itself a violation, had stored its own.
C32_Witness ==
    /\ alerts_of = "inv"
    /\ \E t \in Range(tanks) :
          /\ InvAlert(t)
          /\ inv_calls >= 3
          /\ inv_prev[t] = state[t]
          /\ inv_before.prev[t] # state[t]
          /\ Get(inv_before.badcnt, t, 0) = 1

\* C33: while a pass is at its detectors, the snapshot it read is the plant
\* table as the store held it under the iteration id the pass read.
C33_SnapshotMatchesIteration ==
    pc \in {"warmup"} \cup MidPassPcs => state = store_hist[current_time[1] + 1]

\* C34: a poll that reads a value not greater than the id of the last
\* processed iteration goes to sleep without reading a snapshot, so no
\* detector is called for it.
C34_NoCallForOldId ==
    [][ (pc = "poll" /\ store_time # None /\ store_time[1] <= last_time) => pc' # "read"
      ]_vars

\* The snapshot without the rows of names that were not discovered.
Discovered(snap) == [n \in DOMAIN snap \cap (Range(tanks) \cup Range(pumps)) |-> snap[n]]

\* C35: after discovery the lists tanks and pumps and k_attack do not change,
\* the keys of cusum_state, long_term_buffers, last_block_mean and k_attack
\* (and of the stored previous levels) stay the discovered tanks, and what
\* each detector stores and returns is what it stores and returns on the
\* snapshot without the rows of undiscovered names.
C35_EntitiesFixed ==
    [][ pc # "topo" =>
          /\ UNCHANGED <<tanks, pumps, k_attack>>
          /\ DOMAIN cusum_state' = Range(tanks)
          /\ DOMAIN long_term_buffers' = Range(tanks)
          /\ DOMAIN last_block_mean' = Range(tanks)
          /\ DOMAIN k_attack' = Range(tanks)
          /\ DOMAIN inv_prev' \subseteq Range(tanks)
          /\ (pc = "unit" /\ pc' = "unit_inv") =>
                LET r == check_cusum(cusum_state, Discovered(state'), unit_calls, tanks,
                                     k_attack)
                IN  cusum_state' = r.cusum_state /\ alerts' = r.alerts
          /\ (pc = "unit_inv" /\ pc' = "unit_drift") =>
                LET r == check_invariants(inv_prev, inv_badcnt, Discovered(state),
                                          unit_calls, tanks, pumps)
                IN  /\ inv_prev' = r.inv_prev
                    /\ inv_badcnt' = r.inv_badcnt
                    /\ alerts' = r.alerts
          /\ (pc = "unit_drift" /\ pc' = "unit") =>
                LET r == check_drift(long_term_buffers, last_block_mean, Discovered(state),
                                     unit_calls, tanks)
                IN  /\ long_term_buffers' = r.long_term_buffers
                    /\ last_block_mean' = r.last_block_mean
                    /\ alerts' = r.alerts
      ]_vars

\* C35 witness: only T1 was discovered; a later snapshot holds an empty T2 and
\* a running PU1; check_invariants counted the rise of T1 as with the pumps
\* off and returned nothing about T2.
C35_Witness ==
    /\ pc = "unit_drift"
    /\ tanks = <<"T1">>
    /\ pumps = <<>>
    /\ state["T2"] = 0
    /\ state["PU1"] = 1
    /\ viol_run["T1"] = 1
    /\ DOMAIN inv_prev = {"T1"}
    /\ alerts = <<>>

\* C36: after any number of calls of check_drift every tank's drift buffer
\* holds (number of calls) mod W samples, so all have the same length, in
\* 0..W-1, and are emptied on exactly the calls whose number is a multiple of
\* W; the previous block means exist from the W-th call on, for all tanks
\* together.
C36_DriftBuffersInStep ==
    \A t \in Range(tanks) :
        /\ Len(long_term_buffers[t]) = unit_calls % W
        /\ Len(long_term_buffers[t]) \in 0..(W - 1)
        /\ last_block_mean[t] # None <=> unit_calls >= W

\* C36 witness: one call after the first block evaluation: every buffer holds
\* one sample and every tank has a previous block mean.
C36_Witness ==
    /\ unit_calls = W + 1
    /\ alerts_of = "drift"
    /\ \A t \in Range(tanks) :
          Len(long_term_buffers[t]) = 1 /\ last_block_mean[t] # None

\* C37: every alert returned by a call of check_drift is a MEAN_DRIFT of a
\* call whose number is a multiple of W and at least 2*W; its baseline is the
\* mean of the block before, its current value the mean of the block the call
\* completed, and the two differ by strictly more than DRIFT_THRESHOLD.
C37_FirstBlockSilent ==
    [][ unit_calls' # unit_calls =>
          \A k \in 1..Len(alerts') :
              LET a == alerts'[k]
              IN  /\ a.types = "MEAN_DRIFT"
                  /\ unit_calls' % W = 0
                  /\ unit_calls' >= 2 * W
                  /\ last_block_mean[a.tank] # None
                  /\ a.baseline = last_block_mean[a.tank][1]
                  /\ a.current = Mean(Append(long_term_buffers[a.tank], state'[a.tank]))
                  /\ Abs(a.current - a.baseline) > DRIFT_THRESHOLD
      ]_vars

\* C37 witness: the call that completed the second block returned MEAN_DRIFT
\* for T1 only: its mean moved by a little more than DRIFT_THRESHOLD; T2,
\* whose block mean is DRIFT_THRESHOLD, got none.
C37_Witness ==
    /\ unit_calls = 2 * W
    /\ alerts_of = "drift"
    /\ Len(alerts) = 1
    /\ alerts[1].tank = "T1"
    /\ alerts[1].current - alerts[1].baseline <= DRIFT_THRESHOLD + 200
    /\ last_block_mean["T2"] = Some(DRIFT_THRESHOLD)

\* C38: after any call of check_invariants the stored violation counter of
\* every tank is in 0..INV_PERSIST-1, and every INVARIANT_VIOLATION the call
\* returned has persist = INV_PERSIST, the level stored by the call before as
\* `prev` and the level of the call's snapshot as `level`.
C38_CounterBelowPersist ==
    /\ \A t \in DOMAIN inv_badcnt : inv_badcnt[t] \in 0..(INV_PERSIST - 1)
    /\ alerts_of = "inv" =>
          \A k \in 1..Len(alerts) :
              alerts[k].types = "INVARIANT_VIOLATION" =>
                  /\ alerts[k].persist = INV_PERSIST
                  /\ alerts[k].tank \in DOMAIN inv_before.prev
                  /\ alerts[k].prev = inv_before.prev[alerts[k].tank]
                  /\ alerts[k].level = state[alerts[k].tank]
                  /\ inv_before.badcnt[alerts[k].tank] = INV_PERSIST - 1

\* C38 witness: a call returned INVARIANT_VIOLATION for T1 while T2, with one
\* violation counted, stays at INV_PERSIST - 1.
C38_Witness ==
    /\ alerts_of = "inv"
    /\ InvAlert("T1")
    /\ ~InvAlert("T2")
    /\ inv_badcnt["T1"] = 0
    /\ inv_badcnt["T2"] = INV_PERSIST - 1

====
